---------------------------- MODULE Spec2Model ----------------------------
(***************************************************************************)
(* A model of the zillow-scraper acquisition-and-extraction pipeline:      *)
(*   - ZillowExactParser.parse            (parsers.py)  : SpecParser       *)
(*   - SmartScrollerBrowser.fetch_source  (browsers.py) : SpecBrowser,     *)
(*     and SpecBrowserFair when its thread keeps running                   *)
(*   - _execute_pipeline and _execute_property_detail_fetch, run by        *)
(*     concurrent invocations (api.py, services.py)     : Spec             *)
(*   - the methods of ZillowService called directly     : SpecService,     *)
(*     and called repeatedly on one service             : SpecReuse        *)
(*   - ZillowPropertyDetailParser.parse_detail and PropertyData.to_csv_row *)
(*     (parsers.py, models.py, cli.py)                  : SpecDetail       *)
(*   - ZillowComprehensiveDetailParser.parse (parsers.py) : SpecComp       *)
(*   - the target classification of main (cli.py)       : SpecCli          *)
(* Text is modelled as a sequence of one-character strings so that the     *)
(* substring tests, replacements and strips of the code are computed.      *)
(***************************************************************************)
EXTENDS Naturals, Integers, Sequences, FiniteSets

VARIABLES
    \* --- ZillowPropertyDetailParser.parse_detail, to_csv_row ---
    d_pc,          \* "ready" | "returned" | "raised" | "written"
    d_page,        \* the html_content argument
    d_result,      \* the returned Optional[PropertyData]
    d_csv,         \* the rows save_to_csv wrote
    \* --- ZillowComprehensiveDetailParser.parse ---
    k_pc,          \* "ready" | "returned" | "raised"
    k_page,        \* the html_content argument
    k_result,      \* the returned Optional[PropertyDetail]
    \* --- main ---
    c_pc,          \* "main" | "called"
    c_target,      \* args.target
    c_call,        \* the API function main called
    \* --- ZillowExactParser.parse ---
    p_pc,          \* "ready" | "done" | "raised"
    p_html,        \* the html_content argument
    p_results,     \* the returned list of PropertyData
    \* --- SmartScrollerBrowser.fetch_source ---
    b_pc,              \* "navigate" | "find" | "scroll" | "measure" | "recheck"
                       \* | "snapshot" | "returned"
    sel,               \* index of the selector _find_scrollable_element tries
    current_position,  \* locals of _human_scroll
    visible_height,
    scrolled_height,
    total_height,
    el,                \* the scroll container: [found, clientHeight, scrollTop,
                       \*   scrollHeight, honours]
    grows,             \* how often lazy loading has extended the container
    b_result,          \* the value fetch_source returned
    b_raised,          \* fetch_source raised to its caller
    b_error,           \* the step that failed: "none" | "navigate" | "find"
                       \* | "script" | "page_source"
    \* --- _execute_pipeline / _execute_property_detail_fetch, per invocation ---
    pc,              \* the line the invocation is at ("d.." api.py detail fetch,
                     \* "p.." api.py pipeline, "r.." services.py run)
    kind,            \* "detail" (fetch_property_by_address) | "listings" (fetch_listings)
                     \* | "service_detail" | "service_search" (ZillowService)
    target,          \* the address_or_url / url argument
    browser,         \* the local variable browser: a session id
    sessions,        \* every session: [opened, creator, closes, fetches, users, late]
    html,            \* the local variable html
    properties,      \* the local variable properties
    property_url,    \* the local variable property_url
    ret,             \* [state, value]: the pending or final outcome of the call
    failure,         \* the last call that raised: "none" | "open" | "close" | "parse"
                     \* | "attribute"
    listing_parses,  \* how often the invocation ran ZillowExactParser.parse
    detail_parses,   \* how often the invocation ran a detail parser
    outer_browser    \* search_by_address: self.browser while detail_service runs

parserVars == <<p_pc, p_html, p_results>>

detailVars == <<d_pc, d_page, d_result, d_csv>>

compVars == <<k_pc, k_page, k_result>>

cliVars == <<c_pc, c_target, c_call>>

scrollLocals == <<current_position, visible_height, scrolled_height, total_height>>

browserVars == <<b_pc, sel, current_position, visible_height, scrolled_height,
                 total_height, el, grows, b_result, b_raised, b_error>>

\* The frame of each component: the variables of the others
orchVars == <<pc, kind, target, browser, sessions, html, properties,
              property_url, ret, failure, listing_parses, detail_parses,
              outer_browser>>

notParserVars == <<browserVars, orchVars, detailVars, compVars, cliVars>>
notBrowserVars == <<parserVars, orchVars, detailVars, compVars, cliVars>>
notOrchVars == <<parserVars, browserVars, detailVars, compVars, cliVars>>
notDetailVars == <<parserVars, browserVars, orchVars, compVars, cliVars>>
notCompVars == <<parserVars, browserVars, orchVars, detailVars, cliVars>>
notCliVars == <<parserVars, browserVars, orchVars, detailVars, compVars>>

vars == <<p_pc, p_html, p_results,
          b_pc, sel, current_position, visible_height, scrolled_height,
          total_height, el, grows, b_result, b_raised, b_error,
          pc, kind, target, browser, sessions, html, properties,
          property_url, ret, failure, listing_parses, detail_parses,
          outer_browser,
          d_pc, d_page, d_result, d_csv, k_pc, k_page, k_result,
          c_pc, c_target, c_call>>

(***************************************************************************)
(* Text helpers (Python str semantics)                                     *)
(***************************************************************************)

Whitespace == {" ", "\n", "\t"}

\* s.startswith(pre)
StartsWith(s, pre) ==
    /\ Len(pre) <= Len(s)
    /\ SubSeq(s, 1, Len(pre)) = pre

\* sub in s
Contains(s, sub) ==
    \E i \in 1..(Len(s) + 1) :
        /\ i + Len(sub) - 1 <= Len(s)
        /\ SubSeq(s, i, i + Len(sub) - 1) = sub

\* s.replace(sub, ""): removes the non-overlapping occurrences, left to right
RECURSIVE Remove(_, _)
Remove(s, sub) ==
    IF s = <<>> \/ sub = <<>> THEN s
    ELSE IF StartsWith(s, sub) THEN Remove(SubSeq(s, Len(sub) + 1, Len(s)), sub)
    ELSE <<Head(s)>> \o Remove(Tail(s), sub)

RECURSIVE LStrip(_)
LStrip(s) ==
    IF s # <<>> /\ Head(s) \in Whitespace THEN LStrip(Tail(s)) ELSE s

RECURSIVE RStrip(_)
RStrip(s) ==
    IF s # <<>> /\ s[Len(s)] \in Whitespace THEN RStrip(SubSeq(s, 1, Len(s) - 1)) ELSE s

\* s.strip()
Strip(s) == RStrip(LStrip(s))

UpperCase == <<"A", "B", "C", "D", "E", "F", "G", "H", "I", "J", "K", "L", "M",
               "N", "O", "P", "Q", "R", "S", "T", "U", "V", "W", "X", "Y", "Z">>
LowerCase == <<"a", "b", "c", "d", "e", "f", "g", "h", "i", "j", "k", "l", "m",
               "n", "o", "p", "q", "r", "s", "t", "u", "v", "w", "x", "y", "z">>

LowerChar(c) ==
    IF \E i \in 1..26 : UpperCase[i] = c
    THEN LowerCase[CHOOSE i \in 1..26 : UpperCase[i] = c]
    ELSE c

\* s.lower()
Lower(s) == [i \in 1..Len(s) |-> LowerChar(s[i])]

\* The sentinel "N/A"
NA == <<"N", "/", "A">>

\* "https://www.zillow.com"
SiteOrigin == <<"h", "t", "t", "p", "s", ":", "/", "/", "w", "w", "w", ".",
                "z", "i", "l", "l", "o", "w", ".", "c", "o", "m">>

(***************************************************************************)
(* The parse tree of a page, as far as ZillowExactParser queries it.       *)
(* A tag is [present, text]; text is what get_text() returns for it.       *)
(* An li of the details list is the sequence of its text nodes.            *)
(***************************************************************************)

NoTag == [present |-> FALSE, text |-> <<>>]
Tag(t) == [present |-> TRUE, text |-> t]

\* The value of link_tag.get("href"): None, a str, or a list of str
HrefNone == [kind |-> "none", str |-> <<>>, list |-> <<>>]
HrefStr(s) == [kind |-> "str", str |-> s, list |-> <<>>]
HrefList(l) == [kind |-> "list", str |-> <<>>, list |-> l]

NoLinkTag == [present |-> FALSE, href |-> HrefNone]
LinkTag(h) == [present |-> TRUE, href |-> h]

NoList == [present |-> FALSE, lis |-> <<>>]
DetailsList(lis) == [present |-> TRUE, lis |-> lis]

\* li.get_text(" ", strip=True): the stripped, non-empty text nodes joined by " "
RECURSIVE GetTextSep(_)
GetTextSep(nodes) ==
    IF nodes = <<>> THEN <<>>
    ELSE LET h == Strip(Head(nodes))
             r == GetTextSep(Tail(nodes))
         IN  IF h = <<>> THEN r
             ELSE IF r = <<>> THEN h
             ELSE h \o <<" ">> \o r


(***************************************************************************)
(* ZillowExactParser.parse (parsers.py 24-78)                              *)
(***************************************************************************)

\* A card: the children parse() looks up in it.  raises: some call of the
\* parse-tree library fails while this card is processed.
Card(price, addr, link, details, raises) ==
    [price_tag |-> price, addr_tag |-> addr, link_tag |-> link,
     details_ul |-> details, raises |-> raises]

\* tag.get_text().strip() if tag else "N/A"
TextOrNA(tag) == IF tag.present THEN Strip(tag.text) ELSE NA

\* link = "" ... if link_tag: href_val = link_tag.get("href") ...
CardHref(card) ==
    IF ~card.link_tag.present THEN <<>>
    ELSE LET h == card.link_tag.href
         IN  IF h.kind = "str" THEN h.str
             ELSE IF h.kind = "list" /\ Len(h.list) > 0 THEN h.list[1]
             ELSE <<>>

\* if link and not link.startswith("http"): link = "https://www.zillow.com" + link
CardLink(card) ==
    LET link == CardHref(card)
    IN  IF link # <<>> /\ ~StartsWith(link, <<"h", "t", "t", "p">>)
        THEN SiteOrigin \o link
        ELSE link

NoDetails == [beds |-> NA, baths |-> NA, sqft |-> NA]

\* A classification that tests the baths token before the beds tokens
ClassifyLi_BathsFirst(acc, li) ==
    LET text == Lower(GetTextSep(li))
    IN  IF Contains(text, <<"b", "a">>)
        THEN [acc EXCEPT !.baths = Strip(Remove(text, <<"b", "a">>))]
        ELSE IF Contains(text, <<"b", "d", "s">>) \/ Contains(text, <<"b", "d">>)
        THEN [acc EXCEPT !.beds =
                 Strip(Remove(Remove(text, <<"b", "d", "s">>), <<"b", "d">>))]
        ELSE IF Contains(text, <<"s", "q", "f", "t">>)
        THEN [acc EXCEPT !.sqft = Strip(Remove(text, <<"s", "q", "f", "t">>))]
        ELSE acc

\* One iteration of the loop over the li elements of the details list
ClassifyLi(acc, li) ==
    LET text == Lower(GetTextSep(li))
    IN  IF Contains(text, <<"b", "d", "s">>) \/ Contains(text, <<"b", "d">>)
        THEN [acc EXCEPT !.beds =
                 Strip(Remove(Remove(text, <<"b", "d", "s">>), <<"b", "d">>))]
        ELSE IF Contains(text, <<"b", "a">>)
        THEN [acc EXCEPT !.baths = Strip(Remove(text, <<"b", "a">>))]
        ELSE IF Contains(text, <<"s", "q", "f", "t">>)
        THEN [acc EXCEPT !.sqft = Strip(Remove(text, <<"s", "q", "f", "t">>))]
        ELSE acc

RECURSIVE ScanDetails(_, _)
ScanDetails(acc, lis) ==
    IF lis = <<>> THEN acc
    ELSE ScanDetails(ClassifyLi(acc, Head(lis)), Tail(lis))

CardDetails(card) ==
    IF card.details_ul.present THEN ScanDetails(NoDetails, card.details_ul.lis)
    ELSE NoDetails

\* datetime.now().isoformat(), the default of the timestamp field: the clock
\* is read at one instant
IsoNow == <<"2", "0", "2", "6", "-", "0", "1", "-", "0", "1", "T", "0", "0", ":", "0", "0", ":", "0", "0">>

\* PropertyData(...) with all ten keyword arguments given
PropertyDataWith(address, price, link, beds, baths, sqft, ptype, built, lot, hoa) ==
    [address |-> address, price |-> price, link |-> link,
     beds |-> beds, baths |-> baths, sqft |-> sqft, timestamp |-> IsoNow,
     property_type |-> ptype, year_built |-> built, lot_size |-> lot, hoa |-> hoa]

\* PropertyData(address=..., price=..., link=..., beds=..., baths=..., sqft=...)
PropertyData(address, price, link, beds, baths, sqft) ==
    PropertyDataWith(address, price, link, beds, baths, sqft, NA, NA, NA, NA)

\* The body of the try block for one card
ParseCard(card) ==
    LET d == CardDetails(card)
    IN  PropertyData(TextOrNA(card.addr_tag), TextOrNA(card.price_tag),
                     CardLink(card), d.beds, d.baths, d.sqft)

\* A parser whose loop ends at the first card that raises
RECURSIVE ParseCards_AbortsOnError(_)
ParseCards_AbortsOnError(cards) ==
    IF cards = <<>> \/ Head(cards).raises THEN <<>>
    ELSE <<ParseCard(Head(cards))>> \o ParseCards_AbortsOnError(Tail(cards))

\* A parser that drops a card when none of its fields was found
RECURSIVE ParseCards_DropsEmpty(_)
ParseCards_DropsEmpty(cards) ==
    IF cards = <<>> THEN <<>>
    ELSE IF Head(cards).raises \/ ParseCard(Head(cards)).price = NA
    THEN ParseCards_DropsEmpty(Tail(cards))
    ELSE <<ParseCard(Head(cards))>> \o ParseCards_DropsEmpty(Tail(cards))

\* for card in cards: try: ... results.append(...) except Exception: continue
RECURSIVE ParseCards(_)
ParseCards(cards) ==
    IF cards = <<>> THEN <<>>
    ELSE IF Head(cards).raises THEN ParseCards(Tail(cards))
    ELSE <<ParseCard(Head(cards))>> \o ParseCards(Tail(cards))

\* An html string: empty ("" is falsy), or a document.  tree_ok: BeautifulSoup
\* builds a parse tree for it; cards: what find_all("article", ...) returns.
Html(cards, tree_ok) == [empty |-> FALSE, tree_ok |-> tree_ok, cards |-> cards]
EmptyHtml == [empty |-> TRUE, tree_ok |-> TRUE, cards |-> <<>>]


(***************************************************************************)
(* Sample cards and pages                                                       *)
(***************************************************************************)

MaxCards == 3

\* <article data-test="property-card"></article>
EmptyCard == Card(NoTag, NoTag, NoLinkTag, NoList, FALSE)

\* The first card of the test fixture, shortened: relative link, three details
FullCard ==
    Card(Tag(<<" ", "$", "1", " ">>), Tag(<<"7", " ", "C", "t">>),
         LinkTag(HrefStr(<<"/", "b", "/", "3">>)),
         DetailsList(<< << <<"2">>, <<" ">>, <<"b", "d", "s">> >>,
                        << <<"1">>, <<"b", "a">> >>,
                        << <<"9", "0">>, <<"s", "q", "f", "t">> >> >>),
         FALSE)

\* A card with an absolute link and nothing else
AbsLinkCard ==
    Card(NoTag, Tag(<<"8", " ", "S", "t">>),
         LinkTag(HrefStr(<<"h", "t", "t", "p", "s", ":", "/", "/", "z", "/", "1">>)),
         NoList, FALSE)

\* The expected children are there, but hold no text
BlankCard ==
    Card(Tag(<<" ">>), Tag(<<>>), LinkTag(HrefNone),
         DetailsList(<< << <<"B", "D">> >>, << <<"-">> >> >>), FALSE)

\* A multi-valued href attribute
ListHrefCard ==
    Card(Tag(<<"$", "2">>), NoTag,
         LinkTag(HrefList(<< <<"/", "c">>, <<"/", "d">> >>)), NoList, FALSE)

\* A card whose processing raises
RaisingCard ==
    Card(Tag(<<"$", "3">>), NoTag, NoLinkTag, NoList, TRUE)

\* Details whose items carry several tokens, repeat a class, or carry none
MixedCard ==
    Card(Tag(<<"$", "4">>), NoTag, NoLinkTag,
         DetailsList(<< << <<"3", " ", "b", "d", "s">> >>, << <<"4", " ", "b", "a", " ", "b", "d">> >>, << <<"-">> >>,
                        << <<"5", " ", "s", "q", "f", "t", " ", "b", "a">> >> >>),
         FALSE)

CardSamples ==
    {EmptyCard, FullCard, AbsLinkCard, BlankCard, ListHrefCard, RaisingCard, MixedCard}

SeqsUpTo(S, n) == UNION {[1..k -> S] : k \in 0..n}

Htmls ==
    {EmptyHtml} \cup
    {Html(cs, ok) : cs \in SeqsUpTo(CardSamples, MaxCards), ok \in BOOLEAN}

(***************************************************************************)
(* ZillowPropertyDetailParser.parse_detail (parsers.py 81-207)             *)
(* A detail page holds what the lookups of parse_detail find in its tree.  *)
(***************************************************************************)

\* price_selectors, in the order of the list (parsers.py 112-116)
PriceSelectors == <<"span[data-testid=price]", "span.ds-value", "h3.ds-price">>

\* for tag, attrs in price_selectors: ... if price_tag: price = ...; break
\* but without the break: the last matching selector wins
RECURSIVE FirstPrice_NoBreak(_, _)
FirstPrice_NoBreak(found, selectors) ==
    IF selectors = <<>> THEN NA
    ELSE LET later == FirstPrice_NoBreak(found, Tail(selectors))
         IN  IF later # NA THEN later
             ELSE IF found[Head(selectors)].present
             THEN Strip(found[Head(selectors)].text)
             ELSE NA

\* price = "N/A"; for tag, attrs in price_selectors: price_tag = soup.find(...)
\* if price_tag: price = price_tag.get_text().strip(); break
RECURSIVE FirstPrice(_, _)
FirstPrice(found, selectors) ==
    IF selectors = <<>> THEN NA
    ELSE IF found[Head(selectors)].present
    THEN Strip(found[Head(selectors)].text)
    ELSE FirstPrice(found, Tail(selectors))

\* address: h1.ds-address-container, else the first h1, else "N/A"
DetailAddress(page) ==
    LET addr_tag == IF page.h1_address.present THEN page.h1_address
                    ELSE page.h1_first
    IN  IF addr_tag.present THEN Strip(addr_tag.text) ELSE NA

\* text.split()[0]: the first whitespace-separated token (the callers test a
\* substring of text first, so there is one)
RECURSIVE TakeToken(_)
TakeToken(s) ==
    IF s = <<>> \/ Head(s) \in Whitespace THEN <<>>
    ELSE <<Head(s)>> \o TakeToken(Tail(s))

FirstToken(text) == TakeToken(LStrip(text))

\* _clean_sqft_value
CleanSqftValue(text) ==
    Strip(Remove(Remove(Remove(text, <<"s", "q", "f", "t">>), <<"s", "q", ".", " ", "f", "t", ".">>), <<",">>))

\* One iteration of the loop over the spans of the facts section (138-145)
ClassifyFact(acc, item) ==
    LET text == Lower(GetTextSep(item))
    IN  IF Contains(text, <<"b", "e", "d">>) \/ Contains(text, <<"b", "d">>)
        THEN [acc EXCEPT !.beds = FirstToken(text)]
        ELSE IF Contains(text, <<"b", "a", "t", "h">>) \/ Contains(text, <<"b", "a">>)
        THEN [acc EXCEPT !.baths = FirstToken(text)]
        ELSE IF Contains(text, <<"s", "q", "f", "t">>) \/ Contains(text, <<"s", "q", ".", " ", "f", "t">>)
        THEN [acc EXCEPT !.sqft = CleanSqftValue(text)]
        ELSE acc

RECURSIVE ScanFacts(_, _)
ScanFacts(acc, items) ==
    IF items = <<>> THEN acc
    ELSE ScanFacts(ClassifyFact(acc, Head(items)), Tail(items))

\* A summary pass that overwrites what the facts pass resolved
ClassifySummary_Unguarded(acc, span) ==
    LET text == Lower(GetTextSep(span))
    IN  IF Contains(text, <<"b", "e", "d">>)
        THEN [acc EXCEPT !.beds = FirstToken(text)]
        ELSE IF Contains(text, <<"b", "a", "t", "h">>)
        THEN [acc EXCEPT !.baths = FirstToken(text)]
        ELSE IF Contains(text, <<"s", "q", "f", "t">>) \/ Contains(text, <<"s", "q", ".", " ", "f", "t">>)
        THEN [acc EXCEPT !.sqft = CleanSqftValue(text)]
        ELSE acc

\* One iteration of the loop over the spans of the summary row (152-159)
ClassifySummary(acc, span) ==
    LET text == Lower(GetTextSep(span))
    IN  IF Contains(text, <<"b", "e", "d">>) /\ acc.beds = NA
        THEN [acc EXCEPT !.beds = FirstToken(text)]
        ELSE IF Contains(text, <<"b", "a", "t", "h">>) /\ acc.baths = NA
        THEN [acc EXCEPT !.baths = FirstToken(text)]
        ELSE IF (Contains(text, <<"s", "q", "f", "t">>) \/ Contains(text, <<"s", "q", ".", " ", "f", "t">>))
                /\ acc.sqft = NA
        THEN [acc EXCEPT !.sqft = CleanSqftValue(text)]
        ELSE acc

RECURSIVE ScanSummary(_, _)
ScanSummary(acc, spans) ==
    IF spans = <<>> THEN acc
    ELSE ScanSummary(ClassifySummary(acc, Head(spans)), Tail(spans))

\* 132-145: beds, baths, sqft after the pass over the facts section
FactsPass(page) ==
    IF page.facts_section.present
    THEN ScanFacts(NoDetails, page.facts_section.lis)
    ELSE NoDetails

\* 132-159: beds, baths, sqft from the facts section, then the summary row
DetailBasics(page) ==
    LET facts == FactsPass(page)
    IN  IF (facts.beds = NA \/ facts.baths = NA \/ facts.sqft = NA)
           /\ page.summary.present
        THEN ScanSummary(facts, page.summary.lis)
        ELSE facts

NoFacts == [property_type |-> NA, year_built |-> NA, lot_size |-> NA, hoa |-> NA]

\* One iteration of the loop over the ds-home-fact-list-item rows (169-184)
ClassifyRow(acc, row) ==
    IF row.label_tag.present /\ row.value_tag.present
    THEN LET label == Lower(Strip(row.label_tag.text))
             value == Strip(row.value_tag.text)
         IN  IF Contains(label, <<"t", "y", "p", "e">>)
             THEN [acc EXCEPT !.property_type = value]
             ELSE IF Contains(label, <<"y", "e", "a", "r", " ", "b", "u", "i", "l", "t">>) \/ Contains(label, <<"b", "u", "i", "l", "t">>)
             THEN [acc EXCEPT !.year_built = value]
             ELSE IF Contains(label, <<"l", "o", "t">>)
             THEN [acc EXCEPT !.lot_size = value]
             ELSE IF Contains(label, <<"h", "o", "a">>)
             THEN [acc EXCEPT !.hoa = value]
             ELSE acc
    ELSE acc

RECURSIVE ScanRows(_, _)
ScanRows(acc, rows) ==
    IF rows = <<>> THEN acc
    ELSE ScanRows(ClassifyRow(acc, Head(rows)), Tail(rows))

\* 187-190: link = "N/A"; the href of link[rel=canonical] when it is truthy
DetailLink(page) ==
    IF page.canonical.present /\ page.canonical.href.kind = "str"
       /\ page.canonical.href.str # <<>>
    THEN page.canonical.href.str
    ELSE NA

\* The body of the try block of parse_detail (110-203)
DetailRecord(page) ==
    LET b == DetailBasics(page)
        f == ScanRows(NoFacts, page.detail_rows)
    IN  PropertyDataWith(DetailAddress(page), FirstPrice(page.price, PriceSelectors),
                         DetailLink(page), b.beds, b.baths, b.sqft,
                         f.property_type, f.year_built, f.lot_size, f.hoa)

\* Optional[PropertyData]
NoRecord == [present |-> FALSE, rec |-> PropertyData(NA, NA, NA, NA, NA, NA)]
Record(r) == [present |-> TRUE, rec |-> r]

\* A parse_detail that answers None when the page holds none of its markers
ParseDetailResult_NoneWhenBare(page) ==
    IF page.raises \/ DetailRecord(page) = PropertyData(NA, NA, NA, NA, NA, NA)
    THEN NoRecord
    ELSE Record(DetailRecord(page))

\* 109-207: try: ... return PropertyData(...) except Exception: return None
ParseDetailResult(page) ==
    IF page.raises THEN NoRecord ELSE Record(DetailRecord(page))

\* PropertyData.to_csv_row with two columns exchanged
ToCsvRow_AddressFirst(r) ==
    <<r.timestamp, r.address, r.beds, r.baths, r.sqft, r.price, r.link,
      r.property_type, r.year_built, r.lot_size, r.hoa>>

\* PropertyData.to_csv_row (models.py 147-160)
ToCsvRow(r) ==
    <<r.timestamp, r.price, r.beds, r.baths, r.sqft, r.address, r.link,
      r.property_type, r.year_built, r.lot_size, r.hoa>>

\* The header row save_to_csv writes (cli.py 177-191)
CsvHeader ==
    <<"Scraped_At", "Price", "Beds", "Baths", "Sqft", "Address", "Link",
      "Property_Type", "Year_Built", "Lot_Size", "HOA">>

\* save_to_csv: the header row, then one row per property
SaveToCsv(props) == <<CsvHeader>> \o [i \in 1..Len(props) |-> ToCsvRow(props[i])]

(***************************************************************************)
(* Sample detail pages                                                     *)
(***************************************************************************)

MaxSpans == 2

DetailPage(price, h1_address, h1_first, facts, summary, rows, canonical) ==
    [empty |-> FALSE, tree_ok |-> TRUE, raises |-> FALSE,
     price |-> price, h1_address |-> h1_address, h1_first |-> h1_first,
     facts_section |-> facts, summary |-> summary, detail_rows |-> rows,
     canonical |-> canonical]

NoPrice == [s \in {PriceSelectors[i] : i \in 1..3} |-> NoTag]

\* The html "": BeautifulSoup builds a tree without nodes for it
EmptyDetailPage ==
    [DetailPage(NoPrice, NoTag, NoTag, NoList, NoList, <<>>, NoLinkTag)
        EXCEPT !.empty = TRUE]

\* <html><body><h1>123 Main St</h1></body></html>, shortened
AddressOnlyPage ==
    DetailPage(NoPrice, NoTag, Tag(<<"6", " ", "O", "a", "k">>), NoList, NoList, <<>>, NoLinkTag)

\* One node per price selector, each with a text of its own
PriceTagOf ==
    [s \in {PriceSelectors[i] : i \in 1..3} |->
        IF s = PriceSelectors[1] THEN Tag(<<" ", "$", "1", " ">>)
        ELSE IF s = PriceSelectors[2] THEN Tag(<<"$", "2">>)
        ELSE Tag(<<"$", "3">>)]

PriceChoices ==
    {[s \in DOMAIN PriceTagOf |-> IF s \in S THEN PriceTagOf[s] ELSE NoTag] :
        S \in SUBSET (DOMAIN PriceTagOf)}

AddressChoices ==
    {<<NoTag, NoTag>>, <<NoTag, Tag(<<"6", " ", "O", "a", "k">>)>>, <<Tag(<<" ", "5", " ", "E", "l", "m">>), Tag(<<"6", " ", "O", "a", "k">>)>>}

FactSpans ==
    {<< <<"3">>, <<"b", "d">> >>, << <<"2", " ", "b", "a">> >>, << <<"1", ",", "2", "0", "0", " ", "s", "q", "f", "t">> >>, << <<"4", " ", "B", "e", "d", "s">> >>}

\* A facts section that resolves beds, baths and sqft
FullFacts ==
    DetailsList(<< << <<"3">>, <<"b", "d">> >>, << <<"2", " ", "b", "a">> >>, << <<"1", ",", "2", "0", "0", " ", "s", "q", "f", "t">> >> >>)

FactsChoices ==
    {NoList, FullFacts} \cup {DetailsList(l) : l \in SeqsUpTo(FactSpans, MaxSpans)}

SummaryChoices ==
    {NoList,
     DetailsList(<< << <<"5", " ", "b", "e", "d">> >>, << <<"1", " ", "b", "a", "t", "h">> >>, << <<"9", "0", "0", " ", "s", "q", ".", " ", "f", "t", ".">> >> >>),
     DetailsList(<< << <<"7", " ", "b", "d">> >> >>),
     DetailsList(<< << <<"1", " ", "B", "a", "t", "h">> >> >>)}

FactRow(label, value) == [label_tag |-> label, value_tag |-> value]

FullRows ==
    << FactRow(Tag(<<"T", "y", "p", "e">>), Tag(<<"C", "o", "n", "d", "o">>)),
       FactRow(Tag(<<"Y", "e", "a", "r", " ", "b", "u", "i", "l", "t">>), Tag(<<"1", "9", "9", "0">>)),
       FactRow(NoTag, Tag(<<"x">>)),
       FactRow(Tag(<<"L", "o", "t">>), Tag(<<"2", " ", "a", "c">>)),
       FactRow(Tag(<<"H", "O", "A">>), Tag(<<"$", "9">>)) >>

RowsChoices == {<<>>, FullRows}

CanonicalChoices ==
    {NoLinkTag, LinkTag(HrefStr(<<>>)), LinkTag(HrefStr(<<"h", "t", "t", "p", "s", ":", "/", "/", "z", "/", "h", "/", "1">>))}

\* A page with every marker
FullDetailPage ==
    DetailPage(PriceTagOf, Tag(<<" ", "5", " ", "E", "l", "m">>), Tag(<<"6", " ", "O", "a", "k">>),
               DetailsList(<< << <<"3">>, <<"b", "d">> >>, << <<"2", " ", "b", "a">> >> >>),
               DetailsList(<< << <<"5", " ", "b", "e", "d">> >>, << <<"1", " ", "b", "a", "t", "h">> >>,
                              << <<"9", "0", "0", " ", "s", "q", ".", " ", "f", "t", ".">> >> >>),
               FullRows, LinkTag(HrefStr(<<"h", "t", "t", "p", "s", ":", "/", "/", "z", "/", "h", "/", "1">>)))

\* Pages that differ in price, address, rows and link, and pages that differ
\* in what the facts section and the summary row hold
DetailPages ==
    {EmptyDetailPage, FullDetailPage} \cup
    {DetailPage(pr, a[1], a[2], f, NoList, r, c) :
        pr \in PriceChoices, a \in AddressChoices, f \in {NoList, FullFacts},
        r \in RowsChoices, c \in CanonicalChoices} \cup
    {DetailPage(NoPrice, NoTag, NoTag, f, s, <<>>, NoLinkTag) :
        f \in FactsChoices, s \in SummaryChoices} \cup
    {[pg EXCEPT !.tree_ok = FALSE] : pg \in {AddressOnlyPage, FullDetailPage}} \cup
    {[pg EXCEPT !.raises = TRUE] : pg \in {AddressOnlyPage, FullDetailPage}}

(***************************************************************************)
(* ZillowComprehensiveDetailParser (parsers.py 210-707) and the records    *)
(* it builds (models.py 7-120).  An object reference is [null, val]; an    *)
(* Optional[int] is [some, val].  The price branch is computed from the    *)
(* texts of the page's spans and divs; for the fields another branch fills *)
(* by scanning the page, the page holds per field what that scan ends      *)
(* with: [found, value].                                                   *)
(***************************************************************************)

NullObj == [null |-> TRUE, val |-> <<>>]
Obj(v) == [null |-> FALSE, val |-> v]

NoInt == [some |-> FALSE, val |-> 0]
SomeInt(n) == [some |-> TRUE, val |-> n]

NotFound == [found |-> FALSE, value |-> <<>>]
Found(v) == [found |-> TRUE, value |-> v]

AddressInfo == [street |-> NA, city |-> NA, state |-> NA, zip_code |-> NA]

PriceDetails ==
    [list_price |-> NoInt, price_per_sqft |-> NoInt, est_monthly_payment |-> NoInt,
     zestimate |-> NoInt, tax_assessed_value |-> NoInt, annual_tax_amount |-> NoInt]

PropertyBasics ==
    [home_type |-> NA, bedrooms |-> NoInt, bathrooms |-> NoInt,
     full_bathrooms |-> NoInt, square_footage |-> NoInt, year_built |-> NoInt,
     stories |-> NoInt, zoning |-> NA, parcel_number |-> NA]

ParkingInfo == [total_spaces |-> NoInt, garage_spaces |-> NoInt, features |-> <<>>]

InteriorFeatures ==
    [flooring |-> <<>>, kitchen |-> <<>>, bathroom_features |-> <<>>,
     laundry |-> NA, cooling |-> NA, heating |-> NA,
     additional_rooms |-> <<>>, highlights |-> <<>>]

CommunityAmenities ==
    [hoa_fee_monthly |-> NoInt, parking |-> Obj(ParkingInfo), pool |-> NA,
     accessibility |-> <<>>, storage |-> NA]

LocationScores == [walk_score |-> NoInt, transit_score |-> NoInt, bike_score |-> NoInt]

SchoolInfo == [name |-> NA, rating |-> NA, grades |-> NA]

ListingInfo ==
    [status |-> NA, days_on_zillow |-> NoInt, mls_number |-> NA,
     listing_agent |-> NA, last_updated |-> NA]

\* s.split(sep) for a one-character sep
RECURSIVE SplitOn(_, _)
SplitOn(s, sep) ==
    IF \A i \in 1..Len(s) : s[i] # sep THEN <<s>>
    ELSE LET k == CHOOSE i \in 1..Len(s) :
                     /\ s[i] = sep
                     /\ \A j \in 1..(i - 1) : s[j] # sep
         IN  <<SubSeq(s, 1, k - 1)>> \o SplitOn(SubSeq(s, k + 1, Len(s)), sep)

\* s.split(): the whitespace-separated tokens
RECURSIVE Tokens(_)
Tokens(s) ==
    LET t == LStrip(s)
    IN  IF t = <<>> THEN <<>>
        ELSE <<TakeToken(t)>> \o Tokens(SubSeq(t, Len(TakeToken(t)) + 1, Len(t)))

\* _parse_address, but answering None when the page has no heading
ParseAddress_NullWithoutHeading(page) ==
    IF ~page.h1_address.present /\ ~page.h1_first.present THEN NullObj
    ELSE Obj([AddressInfo EXCEPT !.street = Strip(
                 IF page.h1_address.present THEN page.h1_address.text
                 ELSE page.h1_first.text)])

\* _parse_address (274-301)
ParseAddress(page) ==
    LET h1_tag == IF page.h1_address.present THEN page.h1_address ELSE page.h1_first
    IN  IF ~h1_tag.present THEN Obj(AddressInfo)
        ELSE LET split == SplitOn(Strip(h1_tag.text), ",")
                 parts == [i \in 1..Len(split) |-> Strip(split[i])]
                 state_zip == IF Len(parts) >= 3 THEN Tokens(parts[3]) ELSE <<>>
             IN  Obj([street |-> parts[1],
                      city |-> IF Len(parts) >= 2 THEN parts[2] ELSE NA,
                      state |-> IF Len(state_zip) >= 1 THEN state_zip[1] ELSE NA,
                      zip_code |-> IF Len(state_zip) >= 2 THEN state_zip[2] ELSE NA])

Digits == <<"0", "1", "2", "3", "4", "5", "6", "7", "8", "9">>

DigitValue(c) == (CHOOSE i \in 1..10 : Digits[i] = c) - 1

\* int(s) succeeds (signs, underscores and inner blanks are left out)
IsInt(s) ==
    /\ s # <<>>
    /\ \A i \in 1..Len(s) : \E d \in 1..10 : Digits[d] = s[i]

RECURSIVE IntOf(_)
IntOf(s) ==
    IF s = <<>> THEN 0
    ELSE 10 * IntOf(SubSeq(s, 1, Len(s) - 1)) + DigitValue(s[Len(s)])

\* A conversion that answers 0 for a text that is no number
IntOrAbsent_ZeroDefault(s) == IF IsInt(s) THEN SomeInt(IntOf(s)) ELSE SomeInt(0)

\* try: field = int(s)  except: pass   (the field keeps its default None)
IntOrAbsent(s) == IF IsInt(s) THEN SomeInt(IntOf(s)) ELSE NoInt

IsDigit(c) == \E d \in 1..10 : Digits[d] = c

\* The longest prefix of s made of the characters of set
RECURSIVE TakeIn(_, _)
TakeIn(s, set) ==
    IF s = <<>> \/ Head(s) \notin set THEN <<>>
    ELSE <<Head(s)>> \o TakeIn(Tail(s), set)

DigitChars == {Digits[d] : d \in 1..10}

\* re.findall(r"\d+", s): its first element, or <<>> when the list is empty
RECURSIVE FirstNumber(_)
FirstNumber(s) ==
    IF s = <<>> THEN <<>>
    ELSE IF IsDigit(Head(s)) THEN TakeIn(s, DigitChars)
    ELSE FirstNumber(Tail(s))

\* re.findall(r"\$([0-9,]+)", s): its first element, if the list has one
RECURSIVE DollarAmount(_)
DollarAmount(s) ==
    IF Len(s) < 2 THEN NotFound
    ELSE IF Head(s) = "$" /\ s[2] \in DigitChars \cup {","}
    THEN Found(TakeIn(Tail(s), DigitChars \cup {","}))
    ELSE DollarAmount(Tail(s))

\* numbers = re.findall(r"\$([0-9,]+)", text); if numbers:
\*     field = int(numbers[0].replace(",", ""))   inside try/except: pass
DollarInt(text) ==
    LET numbers == DollarAmount(text)
    IN  IF numbers.found THEN IntOrAbsent(Remove(numbers.value, <<",">>))
        ELSE NoInt

\* float(s) succeeds (signs, exponents, inf and nan are left out) ...
IsFloat(s) ==
    /\ \A i \in 1..Len(s) : IsDigit(s[i]) \/ s[i] = "."
    /\ Cardinality({i \in 1..Len(s) : s[i] = "."}) <= 1
    /\ \E i \in 1..Len(s) : IsDigit(s[i])

\* ... and int(float(s)) is its integer part
FloatInt(s) == IntOf(TakeIn(s, DigitChars))

\* The tests that select a span (for "zestimate": the text of a div):
\* 324 (text lower-cased), 338, 359, 374, 386
HasMarker(field, e) ==
    CASE field = "price_per_sqft" ->
            \/ Contains(Lower(e.text), <<"/", "s", "q", "f", "t">>)
            \/ Contains(Lower(e.text), <<"p", "e", "r", " ", "s", "q", " ", "f", "t">>)
      [] field = "est_monthly_payment" ->
            \/ Contains(e.text, <<"E", "s", "t", ".", " ", "p", "a", "y", "m", "e", "n", "t">>)
            \/ Contains(Lower(e.text), <<"m", "o">>)
      [] field = "zestimate" -> Contains(e, <<"Z", "e", "s", "t", "i", "m", "a", "t", "e">>)
      [] field = "tax_assessed_value" ->
            \/ Contains(e.text, <<"T", "a", "x", " ", "a", "s", "s", "e", "s", "s", "e", "d", " ", "v", "a", "l", "u", "e">>)
            \/ Contains(e.text, <<"A", "s", "s", "e", "s", "s", "e", "d", " ", "V", "a", "l", "u", "e">>)
      [] field = "annual_tax_amount" ->
            \/ Contains(e.text, <<"A", "n", "n", "u", "a", "l", " ", "t", "a", "x", " ", "a", "m", "o", "u", "n", "t">>)
            \/ Contains(e.text, <<"P", "r", "o", "p", "e", "r", "t", "y", " ", "t", "a", "x", "e", "s">>)

\* What the try block of a field makes of the element it reads (314-316,
\* 326-329, 341-350, 363-365, 376-382, 388-394); NoInt when the conversion
\* raises or finds no number, since the except clause is `pass`
FieldInt(field, e) ==
    CASE field = "list_price" ->
            IntOrAbsent(Remove(Remove(Strip(e.text), <<"$">>), <<",">>))
      [] field = "price_per_sqft" ->
            LET price_per_sqft ==
                    Strip(Remove(Remove(Remove(Lower(e.text), <<"$">>), <<"/", "s", "q", "f", "t">>), <<",">>))
            IN  IF IsFloat(price_per_sqft) THEN SomeInt(FloatInt(price_per_sqft))
                ELSE NoInt
      [] field = "est_monthly_payment" ->
            LET amount_text ==
                    Remove(Remove(Remove(e.parent, <<"$">>), <<",">>), <<"/", "m", "o">>)
                numbers == FirstNumber(amount_text)
            IN  IF numbers # <<>> THEN SomeInt(IntOf(numbers)) ELSE NoInt
      [] field = "zestimate" -> DollarInt(e)
      [] field \in {"tax_assessed_value", "annual_tax_amount"} -> DollarInt(e.parent)

\* 310-318: list_price from span[data-testid=price], else span.ds-value
ListPrice(page) ==
    LET price_tag == IF page.price_testid.present THEN page.price_testid
                     ELSE page.price_ds_value
    IN  IF price_tag.present THEN FieldInt("list_price", price_tag) ELSE NoInt

\* The position of the first element of seq with the marker of field, or 0
FirstIndex(seq, field) ==
    LET m == {i \in 1..Len(seq) : HasMarker(field, seq[i])}
    IN  IF m = {} THEN 0 ELSE CHOOSE i \in m : \A j \in m : i <= j

\* 321-332, 335-353, 356-368: the loops that break at the first element with
\* the marker (find_parent() of a span of the tree is never None)
FirstMarked(seq, field) ==
    LET i == FirstIndex(seq, field)
    IN  IF i = 0 THEN NoInt ELSE FieldInt(field, seq[i])

\* 371-396: every span with the marker assigns when its parent's text holds
\* an amount that converts; there is no break
RECURSIVE ScanTax(_, _, _)
ScanTax(acc, spans, field) ==
    IF spans = <<>> THEN acc
    ELSE LET parsed == FieldInt(field, Head(spans))
         IN  ScanTax(IF HasMarker(field, Head(spans)) /\ parsed.some THEN parsed
                     ELSE acc,
                     Tail(spans), field)

\* A record of defaults with the fields the scans found set to what they found
Fill(defaults, scan) ==
    [f \in DOMAIN defaults |->
        IF f \in DOMAIN scan /\ scan[f].found THEN scan[f].value ELSE defaults[f]]

\* _parse_price_details (303-398)
ParsePriceDetails(page) ==
    Obj([list_price |-> ListPrice(page),
         price_per_sqft |-> FirstMarked(page.spans, "price_per_sqft"),
         est_monthly_payment |-> FirstMarked(page.spans, "est_monthly_payment"),
         zestimate |-> FirstMarked(page.divs, "zestimate"),
         tax_assessed_value |-> ScanTax(NoInt, page.spans, "tax_assessed_value"),
         annual_tax_amount |-> ScanTax(NoInt, page.spans, "annual_tax_amount")])

\* _parse_property_basics (400-498)
ParsePropertyBasics(page) == Obj(Fill(PropertyBasics, page.scan.property_basics))

\* _parse_interior_features (500-556)
ParseInteriorFeatures(page) ==
    Obj(Fill(InteriorFeatures, page.scan.interior_features))

\* _parse_community_amenities (558-592): amenities.parking = ParkingInfo(), then
\* the HOA fee and the number of parking spaces
ParseCommunityAmenities(page) ==
    LET c == page.scan.community_amenities
    IN  Obj([CommunityAmenities EXCEPT
                !.hoa_fee_monthly = IF c.hoa_fee_monthly.found
                                    THEN c.hoa_fee_monthly.value ELSE NoInt,
                !.parking = Obj([ParkingInfo EXCEPT
                                    !.total_spaces = IF c.total_spaces.found
                                                     THEN c.total_spaces.value
                                                     ELSE NoInt])])

\* _parse_location_scores (594-635)
ParseLocationScores(page) == Obj(Fill(LocationScores, page.scan.location_scores))

IsSchool(text) ==
    \/ Contains(text, <<"E", "l", "e", "m", "e", "n", "t", "a", "r", "y">>)
    \/ Contains(text, <<"M", "i", "d", "d", "l", "e">>)
    \/ Contains(text, <<"H", "i", "g", "h">>)

RECURSIVE SchoolsOf(_)
SchoolsOf(items) ==
    IF items = <<>> THEN <<>>
    ELSE LET text == Strip(Head(items))
         IN  IF IsSchool(text)
             THEN <<[SchoolInfo EXCEPT !.name = text]>> \o SchoolsOf(Tail(items))
             ELSE SchoolsOf(Tail(items))

\* _parse_nearby_schools (637-656)
ParseNearbySchools(page) ==
    Obj(IF page.school_section.present THEN SchoolsOf(page.school_section.lis)
        ELSE <<>>)

\* 671-682: the strings with "days on Zillow" in their lower-cased text
DaysOnZillow(page) ==
    LET d == page.days_text
    IN  IF d.found /\ Contains(Lower(d.value.text), <<"d", "a", "y", "s", " ", "o", "n", " ", "Z", "i", "l", "l", "o", "w">>)
        THEN SomeInt(d.value.number)
        ELSE NoInt

\* _parse_listing_info (658-707)
ParseListingInfo(page) ==
    Obj([Fill(ListingInfo, page.scan.listing_info)
            EXCEPT !.days_on_zillow = DaysOnZillow(page)])

Branches == {"address", "price_details", "property_basics", "interior_features",
             "community_amenities", "location_scores", "nearby_schools",
             "listing_info"}

\* What each _parse_* call of parse (235-256) returns
BranchValues(page) ==
    [address |-> ParseAddress(page),
     price_details |-> ParsePriceDetails(page),
     property_basics |-> ParsePropertyBasics(page),
     interior_features |-> ParseInteriorFeatures(page),
     community_amenities |-> ParseCommunityAmenities(page),
     location_scores |-> ParseLocationScores(page),
     nearby_schools |-> ParseNearbySchools(page),
     listing_info |-> ParseListingInfo(page)]

\* PropertyDetail(address=..., ..., url=url) (258-268)
PropertyDetail(b, url) ==
    [address |-> b.address, price_details |-> b.price_details,
     property_basics |-> b.property_basics,
     interior_features |-> b.interior_features,
     community_amenities |-> b.community_amenities,
     location_scores |-> b.location_scores, nearby_schools |-> b.nearby_schools,
     listing_info |-> b.listing_info, url |-> url, timestamp |-> IsoNow]

\* Optional[PropertyDetail]
NoDetail == [present |-> FALSE, rec |-> <<>>]
Detail(r) == [present |-> TRUE, rec |-> r]

\* 233-272: try: the eight calls and the constructor; except Exception: None.
\* page.raises names the branch in which a call raises, or is "none".
ComprehensiveResult(page, url) ==
    IF page.raises # "none" THEN NoDetail
    ELSE Detail(PropertyDetail(BranchValues(page), url))

(***************************************************************************)
(* Sample pages of the comprehensive parser                                *)
(***************************************************************************)

NoScan ==
    [property_basics |-> [f \in DOMAIN PropertyBasics |-> NotFound],
     interior_features |-> [f \in DOMAIN InteriorFeatures |-> NotFound],
     community_amenities |-> [hoa_fee_monthly |-> NotFound, total_spaces |-> NotFound],
     location_scores |-> [f \in DOMAIN LocationScores |-> NotFound],
     listing_info |-> [f \in DOMAIN ListingInfo |-> NotFound]]

FullScan ==
    [property_basics |->
        [f \in DOMAIN PropertyBasics |->
            IF f = "home_type" THEN Found(<<"C", "o", "n", "d", "o">>)
            ELSE IF f = "bedrooms" THEN Found(SomeInt(3))
            ELSE NotFound],
     interior_features |->
        [f \in DOMAIN InteriorFeatures |->
            IF f = "flooring" THEN Found(<< <<"O", "a", "k">> >>)
            ELSE IF f = "cooling" THEN Found(<<"C", "e", "n", "t", "r", "a", "l">>)
            ELSE NotFound],
     community_amenities |->
        [hoa_fee_monthly |-> Found(SomeInt(9)), total_spaces |-> Found(SomeInt(2))],
     location_scores |->
        [f \in DOMAIN LocationScores |->
            IF f = "walk_score" THEN Found(SomeInt(8)) ELSE NotFound],
     listing_info |->
        [f \in DOMAIN ListingInfo |->
            IF f = "status" THEN Found(<<"S", "o", "l", "d">>) ELSE NotFound]]

\* The scans in which the branches of B found their markers
ScanOf(B) == [b \in DOMAIN NoScan |-> IF b \in B THEN FullScan[b] ELSE NoScan[b]]

CompPage(h1_address, h1_first, testid, ds_value, scan, schools, days, raises) ==
    [empty |-> FALSE, tree_ok |-> TRUE, raises |-> raises,
     h1_address |-> h1_address, h1_first |-> h1_first,
     price_testid |-> testid, price_ds_value |-> ds_value,
     scan |-> scan, school_section |-> schools, days_text |-> days,
     spans |-> <<>>, divs |-> <<>>]

\* A span as _parse_price_details reads it: its text and the text of its parent
Span(text, parent) == [text |-> text, parent |-> parent]

SpanSamples ==
    {Span(<<"$", "2", "5", "0", "/", "s", "q", "f", "t">>, <<"$", "2", "5", "0", "/", "s", "q", "f", "t">>),
     Span(<<"$", "9", " ", "P", "e", "r", " ", "S", "q", " ", "F", "t">>, <<"$", "9", " ", "P", "e", "r", " ", "S", "q", " ", "F", "t">>),
     Span(<<"E", "s", "t", ".", " ", "p", "a", "y", "m", "e", "n", "t">>, <<"E", "s", "t", ".", " ", "p", "a", "y", "m", "e", "n", "t", " ", "$", "1", ",", "2", "3", "4", "/", "m", "o">>),
     Span(<<"M", "o">>, <<"M", "o">>),
     Span(<<"T", "a", "x", " ", "a", "s", "s", "e", "s", "s", "e", "d", " ", "v", "a", "l", "u", "e">>, <<"T", "a", "x", " ", "a", "s", "s", "e", "s", "s", "e", "d", " ", "v", "a", "l", "u", "e", " ", "$", "5", ",", "0", "0", "0">>),
     Span(<<"A", "n", "n", "u", "a", "l", " ", "t", "a", "x", " ", "a", "m", "o", "u", "n", "t">>, <<"A", "n", "n", "u", "a", "l", " ", "t", "a", "x", " ", "a", "m", "o", "u", "n", "t", " ", "$", ",">>),
     Span(<<"P", "r", "o", "p", "e", "r", "t", "y", " ", "t", "a", "x", "e", "s">>, <<"P", "r", "o", "p", "e", "r", "t", "y", " ", "t", "a", "x", "e", "s", " ", "$", "7", "0">>)}

\* The texts of the divs of a page
DivsChoices ==
    {<<>>, << <<"Z", "e", "s", "t", "i", "m", "a", "t", "e", " ", "$", "3", ",", "0", "0", "0">> >>, << <<"A", "b", "o", "u", "t">>, <<"Z", "e", "s", "t", "i", "m", "a", "t", "e", ":", " ", "n", "o", "n", "e">>, <<"Z", "e", "s", "t", "i", "m", "a", "t", "e", " ", "$", "8">> >>,
     << <<"Z", "e", "s", "t", "i", "m", "a", "t", "e", " ", "$", ",">> >>}

EmptyCompPage ==
    [CompPage(NoTag, NoTag, NoTag, NoTag, NoScan, NoList, NotFound, "none")
        EXCEPT !.empty = TRUE]

CompAddressChoices ==
    {<<NoTag, NoTag>>,
     <<NoTag, Tag(<<"5", " ", "E", "l", "m">>)>>,
     <<Tag(<<" ", "5", " ", "E", "l", "m", ",", " ", "A", "y", "r", ",", " ", "C", "A", " ", "9", "0", " ">>), Tag(<<"x">>)>>}

CompPriceChoices ==
    {<<NoTag, NoTag>>, <<Tag(<<" ", "$", "1", ",", "2", "0", "0", " ">>), Tag(<<"$", "3">>)>>, <<NoTag, Tag(<<"$", "3">>)>>,
     <<Tag(<<"C", "a", "l", "l">>), NoTag>>}

SchoolChoices ==
    {NoList, DetailsList(<< <<"A", "y", "r", " ", "H", "i", "g", "h">>, <<"M", "a", "p">>, <<" ", "B", "o", " ", "M", "i", "d", "d", "l", "e", " ">> >>)}

DaysChoices ==
    {NotFound, Found([text |-> <<"5", " ", "d", "a", "y", "s", " ", "o", "n", " ", "Z", "i", "l", "l", "o", "w">>, number |-> 5])}

FullCompPage ==
    CompPage(Tag(<<" ", "5", " ", "E", "l", "m", ",", " ", "A", "y", "r", ",", " ", "C", "A", " ", "9", "0", " ">>), Tag(<<"x">>), Tag(<<" ", "$", "1", ",", "2", "0", "0", " ">>), Tag(<<"$", "3">>),
             FullScan, DetailsList(<< <<"A", "y", "r", " ", "H", "i", "g", "h">>, <<"M", "a", "p">>, <<" ", "B", "o", " ", "M", "i", "d", "d", "l", "e", " ">> >>),
             Found([text |-> <<"5", " ", "d", "a", "y", "s", " ", "o", "n", " ", "Z", "i", "l", "l", "o", "w">>, number |-> 5]), "none")

\* Pages that differ in what the price branch reads
PricePages ==
    {[CompPage(NoTag, NoTag, pr[1], pr[2], NoScan, NoList, NotFound, "none")
         EXCEPT !.spans = ss, !.divs = dv] :
        pr \in CompPriceChoices, ss \in SeqsUpTo(SpanSamples, MaxSpans),
        dv \in DivsChoices}

CompPages ==
    {EmptyCompPage} \cup PricePages \cup
    {CompPage(a[1], a[2], pr[1], pr[2], ScanOf(B), sc, d, "none") :
        a \in CompAddressChoices, pr \in CompPriceChoices,
        B \in SUBSET (DOMAIN NoScan), sc \in SchoolChoices, d \in DaysChoices} \cup
    {[FullCompPage EXCEPT !.raises = b] : b \in Branches} \cup
    {[pg EXCEPT !.tree_ok = FALSE] : pg \in {EmptyCompPage, FullCompPage}}

CompUrls == {NA, <<"h", "t", "t", "p", "s", ":", "/", "/", "z", "/", "h", "/", "1">>}

(***************************************************************************)
(* The target classification of main (cli.py 37-46, 79-134)                *)
(***************************************************************************)

\* is_zillow_url
IsZillowUrl(t) ==
    StartsWith(t, <<"h", "t", "t", "p", ":", "/", "/">>) \/ StartsWith(t, <<"h", "t", "t", "p", "s", ":", "/", "/">>)

\* is_listing_search_url with the detail marker excluding every search URL
IsListingSearchUrl_DetailExcludesAll(t) ==
    /\ Contains(t, <<"/", "h", "o", "m", "e", "s">>) \/ (Contains(t, <<"-">>) /\ Contains(t, <<"z", "i", "l", "l", "o", "w", ".", "c", "o", "m">>))
    /\ ~Contains(t, <<"/", "h", "o", "m", "e", "d", "e", "t", "a", "i", "l", "s", "/">>)

\* is_listing_search_url
IsListingSearchUrl(t) ==
    \/ Contains(t, <<"/", "h", "o", "m", "e", "s">>)
    \/ /\ Contains(t, <<"-">>)
       /\ Contains(t, <<"z", "i", "l", "l", "o", "w", ".", "c", "o", "m">>)
       /\ ~Contains(t, <<"/", "h", "o", "m", "e", "d", "e", "t", "a", "i", "l", "s", "/">>)

\* What main detected and the API function it called for it
Called(detected, fn) == [detected |-> detected, fn |-> fn]
NotCalled == Called("nothing", "none")

\* The pieces the sample targets are put together from
MaxPieces == 3

TargetPieces ==
    {<<"h", "t", "t", "p", "s", ":", "/", "/">>, <<"h", "t", "t", "p", ":", "/", "/">>, <<"/", "h", "o", "m", "e", "s">>, <<"-">>, <<"z", "i", "l", "l", "o", "w", ".", "c", "o", "m">>,
     <<"/", "h", "o", "m", "e", "d", "e", "t", "a", "i", "l", "s", "/">>, <<"1", " ", "E", "l", "m">>}

RECURSIVE Concat(_)
Concat(pieces) ==
    IF pieces = <<>> THEN <<>> ELSE Head(pieces) \o Concat(Tail(pieces))

CliTargets == {Concat(ps) : ps \in SeqsUpTo(TargetPieces, MaxPieces)}

(***************************************************************************)
(* SmartScrollerBrowser (browsers.py)                                      *)
(***************************************************************************)

\* random.randint(100, 200)
ChunkMin == 100
ChunkMax == 200
\* (scrolled_height + visible_height) >= (total_height - 100)
BottomSlack == 100
\* selectors = [ ... ] in _find_scrollable_element
NumSelectors == 3

\* Bounds of the browser model
MaxGrow == 2                   \* lazy loading extends the container at most so often
GrowStep == 400                \* by this much each time
ChunkChoices == {ChunkMin, 150, ChunkMax}
ClientHeights == {300}
InitialHeights == {300, 700}
MaxHeight == 700 + MaxGrow * GrowStep
\* The model stops scrolling a container beyond this position
MaxPosition == MaxHeight + ChunkMax

Min(a, b) == IF a <= b THEN a ELSE b
Max(a, b) == IF a >= b THEN a ELSE b

NoElement == [found |-> FALSE, clientHeight |-> 0, scrollTop |-> 0,
              scrollHeight |-> 0, honours |-> FALSE]

\* The elements find_element can return
Elements ==
    {[found |-> TRUE, clientHeight |-> c, scrollTop |-> 0, scrollHeight |-> h,
      honours |-> hon] : c \in ClientHeights, h \in InitialHeights, hon \in BOOLEAN}

\* What the page source can be when it is read
BrowserPages ==
    {EmptyHtml, Html(<<>>, TRUE),
     Html(<<Card(NoTag, NoTag, NoLinkTag, NoList, FALSE)>>, TRUE)}

\* The effect of arguments[0].scrollTo(0, pos) on the element
ScrollTo(e, pos) ==
    IF e.honours
    THEN [e EXCEPT !.scrollTop = Min(pos, Max(0, e.scrollHeight - e.clientHeight))]
    ELSE e

\* A bottom test that every position passes
HitBottom_Always(scrolled, visible, total) == TRUE

\* if (scrolled_height + visible_height) >= (total_height - 100)
HitBottom(scrolled, visible, total) == scrolled + visible >= total - BottomSlack

\* A loop that leaves as soon as the bottom is reached, without the re-read
EndOfList_NoRecheck(new_total, total) == TRUE

\* if new_total_height == total_height: break
EndOfList(new_total, total) == new_total = total

\* A fetch_source without the except clause: the failure reaches the caller
OnBrowserError_Propagates(step) ==
    /\ b_pc' = "returned"
    /\ b_raised' = TRUE
    /\ b_error' = step
    /\ UNCHANGED b_result

\* except Exception as e: self.logger.error(...); return ""
OnBrowserError(step) ==
    /\ b_pc' = "returned"
    /\ b_result' = EmptyHtml
    /\ b_raised' = FALSE
    /\ b_error' = step

BrowserLocalsInit ==
    /\ sel = 1
    /\ current_position = 0
    /\ visible_height = 0
    /\ scrolled_height = 0
    /\ total_height = 0
    /\ el = NoElement
    /\ grows = 0
    /\ b_result = EmptyHtml
    /\ b_raised = FALSE
    /\ b_error = "none"

\* self.driver.get(url); time.sleep(5)
Navigate ==
    /\ b_pc = "navigate"
    /\ b_pc' = "find"
    /\ UNCHANGED <<sel, scrollLocals, el, grows, b_result, b_raised, b_error,
                   notBrowserVars>>

NavigateFails ==
    /\ b_pc = "navigate"
    /\ OnBrowserError("navigate")
    /\ UNCHANGED <<sel, scrollLocals, el, grows,
                   notBrowserVars>>

\* try: el = self.driver.find_element(by_type, selector); return el
FindFound ==
    /\ b_pc = "find"
    /\ sel <= NumSelectors
    /\ \E e \in Elements : el' = e
    /\ current_position' = 0
    /\ b_pc' = "scroll"
    /\ UNCHANGED <<sel, visible_height, scrolled_height, total_height, grows,
                   b_result, b_raised, b_error,
                   notBrowserVars>>

\* except Exception: continue
FindNext ==
    /\ b_pc = "find"
    /\ sel <= NumSelectors
    /\ sel' = sel + 1
    /\ UNCHANGED <<b_pc, scrollLocals, el, grows, b_result, b_raised, b_error,
                   notBrowserVars>>

\* A fetch_source that reads the page source without scrolling the body
FindBody_SkipsScroll ==
    /\ b_pc = "find"
    /\ sel > NumSelectors
    /\ \E e \in Elements : el' = e
    /\ b_pc' = "snapshot"
    /\ UNCHANGED <<sel, scrollLocals, grows, b_result, b_raised, b_error,
                   notBrowserVars>>

\* return self.driver.find_element(By.TAG_NAME, "body")
FindBody ==
    /\ b_pc = "find"
    /\ sel > NumSelectors
    /\ \E e \in Elements : el' = e
    /\ current_position' = 0
    /\ b_pc' = "scroll"
    /\ UNCHANGED <<sel, visible_height, scrolled_height, total_height, grows,
                   b_result, b_raised, b_error,
                   notBrowserVars>>

\* the body lookup raises: nothing in _find_scrollable_element catches it
FindBodyFails ==
    /\ b_pc = "find"
    /\ sel > NumSelectors
    /\ OnBrowserError("find")
    /\ UNCHANGED <<sel, scrollLocals, el, grows,
                   notBrowserVars>>

\* chunk = random.randint(100, 200); current_position += chunk; scrollTo(...)
ScrollStep ==
    /\ b_pc = "scroll"
    /\ \E chunk \in ChunkChoices :
          /\ current_position + chunk <= MaxPosition
          /\ current_position' = current_position + chunk
          /\ el' = ScrollTo(el, current_position + chunk)
    /\ b_pc' = "measure"
    /\ UNCHANGED <<sel, visible_height, scrolled_height, total_height, grows,
                   b_result, b_raised, b_error,
                   notBrowserVars>>

\* the three reads after the short pause, and the bottom test
Measure ==
    /\ b_pc = "measure"
    /\ visible_height' = el.clientHeight
    /\ scrolled_height' = el.scrollTop
    /\ total_height' = el.scrollHeight
    /\ b_pc' = IF HitBottom(el.scrollTop, el.clientHeight, el.scrollHeight)
               THEN "recheck" ELSE "scroll"
    /\ UNCHANGED <<sel, current_position, el, grows, b_result, b_raised, b_error,
                   notBrowserVars>>

\* time.sleep(2.5); new_total_height = ...; break, or record the new height
Recheck ==
    /\ b_pc = "recheck"
    /\ IF EndOfList(el.scrollHeight, total_height)
       THEN b_pc' = "snapshot" /\ UNCHANGED total_height
       ELSE b_pc' = "scroll" /\ total_height' = el.scrollHeight
    /\ UNCHANGED <<sel, current_position, visible_height, scrolled_height, el,
                   grows, b_result, b_raised, b_error,
                   notBrowserVars>>

\* any execute_script call of the loop raises
ScriptFails ==
    /\ b_pc \in {"scroll", "measure", "recheck"}
    /\ OnBrowserError("script")
    /\ UNCHANGED <<sel, scrollLocals, el, grows,
                   notBrowserVars>>

\* The page injects more content while the loop pauses
LazyLoad ==
    /\ b_pc \in {"scroll", "measure", "recheck"}
    /\ grows < MaxGrow
    /\ grows' = grows + 1
    /\ el' = [el EXCEPT !.scrollHeight = @ + GrowStep]
    /\ UNCHANGED <<b_pc, sel, scrollLocals, b_result, b_raised, b_error,
                   notBrowserVars>>

\* return self.driver.page_source
Snapshot ==
    /\ b_pc = "snapshot"
    /\ \E h \in BrowserPages : b_result' = h
    /\ b_pc' = "returned"
    /\ UNCHANGED <<sel, scrollLocals, el, grows, b_raised, b_error,
                   notBrowserVars>>

SnapshotFails ==
    /\ b_pc = "snapshot"
    /\ OnBrowserError("page_source")
    /\ UNCHANGED <<sel, scrollLocals, el, grows,
                   notBrowserVars>>

NextBrowser ==
    \/ Navigate \/ NavigateFails
    \/ FindFound \/ FindNext \/ FindBody \/ FindBodyFails
    \/ ScrollStep \/ Measure \/ Recheck \/ ScriptFails \/ LazyLoad
    \/ Snapshot \/ SnapshotFails


(***************************************************************************)
(* One call of ZillowExactParser.parse                                     *)
(***************************************************************************)

\* soup = BeautifulSoup(...) succeeds; the loop runs; return results
Parse ==
    /\ p_pc = "ready"
    /\ p_html.tree_ok
    /\ p_results' = ParseCards(p_html.cards)
    /\ p_pc' = "done"
    /\ UNCHANGED <<p_html, notParserVars>>

\* soup = BeautifulSoup(...) raises: it is outside the per-card try
ParseTreeFails ==
    /\ p_pc = "ready"
    /\ ~p_html.tree_ok
    /\ p_pc' = "raised"
    /\ UNCHANGED <<p_html, p_results, notParserVars>>

NextParser == Parse \/ ParseTreeFails

(***************************************************************************)
(* parse_detail and to_csv_row, as actions                                 *)
(***************************************************************************)

\* parsers.py 107: BeautifulSoup(...) raises; the statement is outside the try
DetailTreeFails ==
    /\ d_pc = "ready"
    /\ ~d_page.tree_ok
    /\ d_pc' = "raised"
    /\ UNCHANGED <<d_page, d_result, d_csv, notDetailVars>>

\* parsers.py 107-207: the tree is built and the try block runs
DetailParse ==
    /\ d_pc = "ready"
    /\ d_page.tree_ok
    /\ d_result' = ParseDetailResult(d_page)
    /\ d_pc' = "returned"
    /\ UNCHANGED <<d_page, d_csv, notDetailVars>>

\* cli.py 175-193: the returned record is written under the header row
DetailSave ==
    /\ d_pc = "returned"
    /\ d_result.present
    /\ d_csv' = SaveToCsv(<<d_result.rec>>)
    /\ d_pc' = "written"
    /\ UNCHANGED <<d_page, d_result, notDetailVars>>

NextDetail == DetailTreeFails \/ DetailParse \/ DetailSave

(***************************************************************************)
(* ZillowComprehensiveDetailParser.parse, as actions                       *)
(***************************************************************************)

\* parsers.py 231: BeautifulSoup(...) raises; the statement is outside the try
CompTreeFails ==
    /\ k_pc = "ready"
    /\ ~k_page.tree_ok
    /\ k_pc' = "raised"
    /\ UNCHANGED <<k_page, k_result, notCompVars>>

\* parsers.py 231-272: the tree is built and the try block runs
CompParse ==
    /\ k_pc = "ready"
    /\ k_page.tree_ok
    /\ \E url \in CompUrls : k_result' = ComprehensiveResult(k_page, url)
    /\ k_pc' = "returned"
    /\ UNCHANGED <<k_page, notCompVars>>

NextComp == CompTreeFails \/ CompParse

(***************************************************************************)
(* main (cli.py 79-134), as actions                                        *)
(***************************************************************************)

\* 82-85: a listing search URL: fetch_listings
MainListingSearch ==
    /\ c_pc = "main"
    /\ IsZillowUrl(c_target)
    /\ IsListingSearchUrl(c_target)
    /\ c_call' = Called("listing search URL", "fetch_listings")
    /\ c_pc' = "called"
    /\ UNCHANGED <<c_target, notCliVars>>

\* 100-105: a property detail URL: fetch_property_by_address
MainDetailUrl ==
    /\ c_pc = "main"
    /\ IsZillowUrl(c_target)
    /\ ~IsListingSearchUrl(c_target)
    /\ c_call' = Called("property detail URL", "fetch_property_by_address")
    /\ c_pc' = "called"
    /\ UNCHANGED <<c_target, notCliVars>>

\* 129-134: an address string: fetch_property_by_address
MainAddress ==
    /\ c_pc = "main"
    /\ ~IsZillowUrl(c_target)
    /\ c_call' = Called("address string", "fetch_property_by_address")
    /\ c_pc' = "called"
    /\ UNCHANGED <<c_target, notCliVars>>

NextCli == MainListingSearch \/ MainDetailUrl \/ MainAddress




(***************************************************************************)
(* Sessions, targets and results of the entry points (api.py, services.py) *)
(***************************************************************************)

\* The concurrent invocations (each runs on its own worker thread)
Procs == {1, 2}

\* A session is named by the invocation that asked for it and a serial number
SessionIds == Procs \X {1, 2}
NoSession == <<0, 0>>

NoSessionYet ==
    [opened |-> FALSE, creator |-> 0, closes |-> 0, fetches |-> <<>>,
     users |-> {}, late |-> FALSE]

\* A browser shared by every invocation (a module-level singleton)
NewSessionId_Singleton(p) == <<1, 1>>

\* SmartScrollerBrowser(headless=headless): each call builds a new Driver
NewSessionId(p) == IF sessions[<<p, 1>>].opened THEN <<p, 2>> ELSE <<p, 1>>

\* SmartScrollerBrowser.__init__ called by invocation p
OpenSession(ss, s, p) ==
    [ss EXCEPT ![s] = [@ EXCEPT !.opened = TRUE, !.creator = p]]

\* browser.fetch_source(url) called by invocation p
FetchOn(ss, s, p, url) ==
    [ss EXCEPT ![s] = [@ EXCEPT !.fetches = Append(@, url),
                                !.users = @ \cup {p},
                                !.late = @ \/ ss[s].closes > 0]]

\* browser.close() called by invocation p
CloseOn(ss, s, p) ==
    [ss EXCEPT ![s] = [@ EXCEPT !.closes = @ + 1, !.users = @ \cup {p}]]

HttpScheme == <<"h", "t", "t", "p", ":", "/", "/">>
HttpsScheme == <<"h", "t", "t", "p", "s", ":", "/", "/">>

\* A test that knows only the https scheme
IsUrl_HttpsOnly(t) == StartsWith(t, HttpsScheme)

\* address_or_url.startswith("http://") or address_or_url.startswith("https://")
IsUrl(t) == StartsWith(t, HttpScheme) \/ StartsWith(t, HttpsScheme)

\* urllib.parse.quote: letters, digits and "_.-~/" are kept, every other
\* character becomes %XX
QuoteSafe ==
    {UpperCase[i] : i \in 1..26} \cup {LowerCase[i] : i \in 1..26} \cup
    {"0", "1", "2", "3", "4", "5", "6", "7", "8", "9", "_", ".", "-", "~", "/"}

QuoteChar(c) ==
    IF c \in QuoteSafe THEN <<c>>
    ELSE CASE c = " " -> <<"%", "2", "0">>
           [] c = "," -> <<"%", "2", "C">>
           [] c = ":" -> <<"%", "3", "A">>
           [] c = "#" -> <<"%", "2", "3">>
           [] c = "?" -> <<"%", "3", "F">>
           [] c = "&" -> <<"%", "2", "6">>
           [] c = "%" -> <<"%", "2", "5">>

RECURSIVE Quote(_)
Quote(s) == IF s = <<>> THEN <<>> ELSE QuoteChar(Head(s)) \o Quote(Tail(s))

\* f"https://www.zillow.com/homes/{encoded_address}_rb/"
SearchUrl(address) ==
    SiteOrigin \o <<"/", "h", "o", "m", "e", "s", "/">> \o Quote(address)
        \o <<"_", "r", "b", "/">>

\* The first usable link of any record
FirstLink_AnyUsable(props) ==
    IF \E i \in 1..Len(props) : props[i].link \notin {<<>>, NA}
    THEN props[CHOOSE i \in 1..Len(props) :
                   /\ props[i].link \notin {<<>>, NA}
                   /\ \A j \in 1..(i - 1) : props[j].link \in {<<>>, NA}].link
    ELSE props[1].link

\* property_url = properties[0].link
FirstLink(props) == props[1].link

\* if not property_url or property_url == "N/A"
Unusable(url) == url = <<>> \/ url = NA

\* The values the entry points return
NoneValue == [kind |-> "none", url |-> <<>>, list |-> <<>>]
DetailValue(url) == [kind |-> "detail", url |-> url, list |-> <<>>]
ListValue(l) == [kind |-> "list", url |-> <<>>, list |-> l]

Running == [state |-> "running", value |-> NoneValue]
Returning(v) == [state |-> "returning", value |-> v]
Raising == [state |-> "raising", value |-> NoneValue]
Returned(v) == [state |-> "returned", value |-> v]
Raised == [state |-> "raised", value |-> NoneValue]

\* Targets of the invocations
UrlTarget == <<"h", "t", "t", "p", "s", ":", "/", "/", "z", "/", "h", "/", "1">>
HttpTarget == <<"h", "t", "t", "p", ":", "/", "/", "z", "/", "2">>
AddressTarget == <<"1", " ", "E", "l", "m", ",", " ", "A">>
Targets == {UrlTarget, HttpTarget, AddressTarget}

\* A caller that takes "" for a page
NotHtml_Never(h) == FALSE

\* if not html
NotHtml(h) == h.empty

\* What fetch_source can return: "" or the source of a page
FetchResults ==
    {EmptyHtml, Html(<<>>, TRUE), Html(<<>>, FALSE),
     Html(<<EmptyCard, AbsLinkCard>>, TRUE), Html(<<FullCard>>, TRUE)}

Goto(p, l) == pc' = [pc EXCEPT ![p] = l]
SetRet(p, r) == ret' = [ret EXCEPT ![p] = r]
SetFailure(p, f) == failure' = [failure EXCEPT ![p] = f]

(***************************************************************************)
(* _execute_property_detail_fetch (api.py 75-152)                          *)
(***************************************************************************)

\* 81: browser = SmartScrollerBrowser(headless=headless)
OpenBrowser(p) ==
    /\ pc[p] = "d81"
    /\ LET s == NewSessionId(p)
       IN  /\ sessions' = OpenSession(sessions, s, p)
           /\ browser' = [browser EXCEPT ![p] = s]
    /\ Goto(p, "d86")
    /\ UNCHANGED <<kind, target, html, properties, property_url, ret, failure,
                   listing_parses, detail_parses, outer_browser, notOrchVars>>

\* 81: the constructor raises; the statement is outside the try block
OpenBrowserFails(p) ==
    /\ pc[p] = "d81"
    /\ Goto(p, "done")
    /\ SetRet(p, Raised)
    /\ SetFailure(p, "open")
    /\ UNCHANGED <<kind, target, browser, sessions, html, properties,
                   property_url, listing_parses, detail_parses, outer_browser,
                   notOrchVars>>

\* 86-94: URL or address
Classify(p) ==
    /\ pc[p] = "d86"
    /\ IF IsUrl(target[p])
       THEN /\ property_url' = [property_url EXCEPT ![p] = target[p]]
            /\ Goto(p, "d130")
       ELSE /\ Goto(p, "d97")
            /\ UNCHANGED property_url
    /\ UNCHANGED <<kind, target, browser, sessions, html, properties, ret,
                   failure, listing_parses, detail_parses, outer_browser,
                   notOrchVars>>

\* 97-99: html = browser.fetch_source(search_url); if not html
FetchSearch(p) ==
    /\ pc[p] = "d97"
    /\ \E h \in FetchResults :
          /\ html' = [html EXCEPT ![p] = h]
          /\ Goto(p, IF NotHtml(h) THEN "d101" ELSE "d105")
    /\ sessions' = FetchOn(sessions, browser[p], p, SearchUrl(target[p]))
    /\ UNCHANGED <<kind, target, browser, properties, property_url, ret,
                   failure, listing_parses, detail_parses, outer_browser,
                   notOrchVars>>

\* 105-120: properties = parser.parse(html) and the tests on its result
ParseSearch(p) ==
    /\ pc[p] = "d105"
    /\ html[p].tree_ok
    /\ listing_parses' = [listing_parses EXCEPT ![p] = @ + 1]
    /\ LET props == ParseCards(html[p].cards)
       IN  /\ properties' = [properties EXCEPT ![p] = props]
           /\ IF props = <<>>
              THEN Goto(p, "d109") /\ UNCHANGED property_url
              ELSE /\ property_url' = [property_url EXCEPT ![p] = FirstLink(props)]
                   /\ Goto(p, IF Unusable(FirstLink(props)) THEN "d117" ELSE "d123")
    /\ UNCHANGED <<kind, target, browser, sessions, html, ret, failure,
                   detail_parses, outer_browser, notOrchVars>>

\* 105: parser.parse raises (the page tree cannot be built); 148-150: return None
ParseSearchFails(p) ==
    /\ pc[p] = "d105"
    /\ ~html[p].tree_ok
    /\ listing_parses' = [listing_parses EXCEPT ![p] = @ + 1]
    /\ SetFailure(p, "parse")
    /\ SetRet(p, Returning(NoneValue))
    /\ Goto(p, "d152")
    /\ UNCHANGED <<kind, target, browser, sessions, html, properties,
                   property_url, detail_parses, outer_browser, notOrchVars>>

\* 101-102, 109-110, 117-118, 134-135: browser.close(); return None
\* (when close() raises, 148-150 return None as well)
CloseAndReturnNone(p) ==
    /\ pc[p] \in {"d101", "d109", "d117", "d134"}
    /\ sessions' = CloseOn(sessions, browser[p], p)
    /\ \E raised \in BOOLEAN :
          SetFailure(p, IF raised THEN "close" ELSE failure[p])
    /\ SetRet(p, Returning(NoneValue))
    /\ Goto(p, "d152")
    /\ UNCHANGED <<kind, target, browser, html, properties, property_url,
                   listing_parses, detail_parses, outer_browser, notOrchVars>>

\* A hand-over that leaves the search browser open
CloseSearchBrowser_Skipped(p) ==
    /\ pc[p] = "d123"
    /\ Goto(p, "d126")
    /\ UNCHANGED <<kind, target, browser, sessions, html, properties,
                   property_url, ret, failure, listing_parses, detail_parses,
                   outer_browser, notOrchVars>>

\* 123: browser.close()  (the search browser)
CloseSearchBrowser(p) ==
    /\ pc[p] = "d123"
    /\ sessions' = CloseOn(sessions, browser[p], p)
    /\ \E raised \in BOOLEAN :
          IF raised
          THEN /\ SetFailure(p, "close")
               /\ SetRet(p, Returning(NoneValue))
               /\ Goto(p, "d152")
          ELSE /\ Goto(p, "d126")
               /\ UNCHANGED <<ret, failure>>
    /\ UNCHANGED <<kind, target, browser, html, properties, property_url,
                   listing_parses, detail_parses, outer_browser, notOrchVars>>

\* A hand-over that goes on with the closed search browser
OpenDetailBrowser_Reuses(p) ==
    /\ pc[p] = "d126"
    /\ Goto(p, "d130")
    /\ UNCHANGED <<kind, target, browser, sessions, html, properties,
                   property_url, ret, failure, listing_parses, detail_parses,
                   outer_browser, notOrchVars>>

\* 126: browser = SmartScrollerBrowser(headless=headless)
OpenDetailBrowser(p) ==
    /\ pc[p] = "d126"
    /\ LET s == NewSessionId(p)
       IN  /\ sessions' = OpenSession(sessions, s, p)
           /\ browser' = [browser EXCEPT ![p] = s]
    /\ Goto(p, "d130")
    /\ UNCHANGED <<kind, target, html, properties, property_url, ret, failure,
                   listing_parses, detail_parses, outer_browser, notOrchVars>>

\* 126: the constructor raises; browser still names the closed search session
OpenDetailBrowserFails(p) ==
    /\ pc[p] = "d126"
    /\ SetFailure(p, "open")
    /\ SetRet(p, Returning(NoneValue))
    /\ Goto(p, "d152")
    /\ UNCHANGED <<kind, target, browser, sessions, html, properties,
                   property_url, listing_parses, detail_parses, outer_browser,
                   notOrchVars>>

\* 130-132: html = browser.fetch_source(property_url); if not html
FetchDetail(p) ==
    /\ pc[p] = "d130"
    /\ \E h \in FetchResults :
          /\ html' = [html EXCEPT ![p] = h]
          /\ Goto(p, IF NotHtml(h) THEN "d134" ELSE "d139")
    /\ sessions' = FetchOn(sessions, browser[p], p, property_url[p])
    /\ UNCHANGED <<kind, target, browser, properties, property_url, ret,
                   failure, listing_parses, detail_parses, outer_browser,
                   notOrchVars>>

\* 138-146: property_detail = detail_parser.parse(html, url=property_url);
\* the parser returns a record, or None when its pass fails
ParseDetail(p) ==
    /\ pc[p] = "d139"
    /\ html[p].tree_ok
    /\ \E found \in BOOLEAN :
          SetRet(p, Returning(IF found THEN DetailValue(property_url[p])
                              ELSE NoneValue))
    /\ detail_parses' = [detail_parses EXCEPT ![p] = @ + 1]
    /\ Goto(p, "d152")
    /\ UNCHANGED <<kind, target, browser, sessions, html, properties,
                   property_url, failure, listing_parses, outer_browser,
                   notOrchVars>>

\* 139: detail_parser.parse raises (parsers.py 231 is outside its try)
ParseDetailFails(p) ==
    /\ pc[p] = "d139"
    /\ ~html[p].tree_ok
    /\ SetFailure(p, "parse")
    /\ detail_parses' = [detail_parses EXCEPT ![p] = @ + 1]
    /\ SetRet(p, Returning(NoneValue))
    /\ Goto(p, "d152")
    /\ UNCHANGED <<kind, target, browser, sessions, html, properties,
                   property_url, listing_parses, outer_browser, notOrchVars>>

\* A function without the finally clause
FinallyClose_Skipped(p) ==
    /\ pc[p] = "d152"
    /\ SetRet(p, Returned(ret[p].value))
    /\ Goto(p, "done")
    /\ UNCHANGED <<kind, target, browser, sessions, html, properties,
                   property_url, failure, listing_parses, detail_parses,
                   outer_browser, notOrchVars>>

\* 151-152: finally: browser.close(); an exception of close() leaves the function
FinallyClose(p) ==
    /\ pc[p] = "d152"
    /\ sessions' = CloseOn(sessions, browser[p], p)
    /\ \E raised \in BOOLEAN :
          IF raised
          THEN SetFailure(p, "close") /\ SetRet(p, Raised)
          ELSE SetRet(p, Returned(ret[p].value)) /\ UNCHANGED failure
    /\ Goto(p, "done")
    /\ UNCHANGED <<kind, target, browser, html, properties, property_url,
                   listing_parses, detail_parses, outer_browser, notOrchVars>>

(***************************************************************************)
(* _execute_pipeline (api.py 59-72) and ZillowService.run (services.py     *)
(* 15-29)                                                                  *)
(***************************************************************************)

\* api.py 63-65: browser = SmartScrollerBrowser(...); service = ZillowService(...)
PipelineOpenBrowser(p) ==
    /\ pc[p] = "p63"
    /\ LET s == NewSessionId(p)
       IN  /\ sessions' = OpenSession(sessions, s, p)
           /\ browser' = [browser EXCEPT ![p] = s]
    /\ Goto(p, "r18")
    /\ UNCHANGED <<kind, target, html, properties, property_url, ret, failure,
                   listing_parses, detail_parses, outer_browser, notOrchVars>>

\* api.py 63: the constructor raises; the statement is outside the try block
PipelineOpenBrowserFails(p) ==
    /\ pc[p] = "p63"
    /\ Goto(p, "done")
    /\ SetRet(p, Raised)
    /\ SetFailure(p, "open")
    /\ UNCHANGED <<kind, target, browser, sessions, html, properties,
                   property_url, listing_parses, detail_parses, outer_browser,
                   notOrchVars>>

\* services.py 18-22: html = self.browser.fetch_source(url); if not html: return []
RunFetch(p) ==
    /\ pc[p] = "r18"
    /\ \E h \in FetchResults :
          /\ html' = [html EXCEPT ![p] = h]
          /\ IF NotHtml(h)
             THEN Goto(p, "r29") /\ SetRet(p, Returning(ListValue(<<>>)))
             ELSE Goto(p, "r24") /\ UNCHANGED ret
    /\ sessions' = FetchOn(sessions, browser[p], p, target[p])
    /\ UNCHANGED <<kind, target, browser, properties, property_url, failure,
                   listing_parses, detail_parses, outer_browser, notOrchVars>>

\* services.py 24-26: data = self.parser.parse(html); return data
RunParse(p) ==
    /\ pc[p] = "r24"
    /\ html[p].tree_ok
    /\ listing_parses' = [listing_parses EXCEPT ![p] = @ + 1]
    /\ properties' = [properties EXCEPT ![p] = ParseCards(html[p].cards)]
    /\ SetRet(p, Returning(ListValue(ParseCards(html[p].cards))))
    /\ Goto(p, "r29")
    /\ UNCHANGED <<kind, target, browser, sessions, html, property_url,
                   failure, detail_parses, outer_browser, notOrchVars>>

\* services.py 24: the parser raises; run has no except clause
RunParseFails(p) ==
    /\ pc[p] = "r24"
    /\ ~html[p].tree_ok
    /\ listing_parses' = [listing_parses EXCEPT ![p] = @ + 1]
    /\ SetFailure(p, "parse")
    /\ SetRet(p, Raising)
    /\ Goto(p, "r29")
    /\ UNCHANGED <<kind, target, browser, sessions, html, properties,
                   property_url, detail_parses, outer_browser, notOrchVars>>

\* services.py 28-29: finally: self.browser.close(); then, for a call through
\* _execute_pipeline, api.py 67-71: return service.run(url), or except
\* Exception: return []; a direct caller of run sees what run raises
RunFinallyClose(p) ==
    /\ pc[p] = "r29"
    /\ sessions' = CloseOn(sessions, browser[p], p)
    /\ \E raised \in BOOLEAN :
          LET raises == raised \/ ret[p].state = "raising"
              caught == IF kind[p] = "listings" THEN Returned(ListValue(<<>>))
                        ELSE Raised
          IN  /\ failure' = [failure EXCEPT ![p] = IF raised THEN "close" ELSE @]
              /\ SetRet(p, IF raises THEN caught ELSE Returned(ret[p].value))
    /\ Goto(p, "done")
    /\ UNCHANGED <<kind, target, browser, html, properties, property_url,
                   listing_parses, detail_parses, outer_browser, notOrchVars>>

(***************************************************************************)
(* ZillowService.fetch_property_detail and search_by_address (services.py  *)
(* 31-126), called on a service that was built with a SmartScrollerBrowser *)
(***************************************************************************)

\* What SmartScrollerBrowser.__init__ sets on the instance (browsers.py 12-15)
BrowserAttributes == {"logger", "driver"}

\* The value a service method returns for a parsed record
RecordValue(r) == [kind |-> "record", url |-> r.link, list |-> <<r>>]

\* What fetch_source can return for a detail page
DetailFetchResults ==
    {EmptyHtml, AddressOnlyPage, FullDetailPage,
     [FullDetailPage EXCEPT !.tree_ok = FALSE],
     [FullDetailPage EXCEPT !.raises = TRUE]}

\* 43-47: html = self.browser.fetch_source(url); if not html: return None
SvcFetchDetail(p) ==
    /\ pc[p] = "f43"
    /\ \E h \in DetailFetchResults :
          /\ html' = [html EXCEPT ![p] = h]
          /\ IF NotHtml(h)
             THEN Goto(p, "f63") /\ SetRet(p, Returning(NoneValue))
             ELSE Goto(p, "f53") /\ UNCHANGED ret
    /\ sessions' = FetchOn(sessions, browser[p], p,
                           IF outer_browser[p] = NoSession THEN target[p]
                           ELSE property_url[p])
    /\ UNCHANGED <<kind, target, browser, properties, property_url, failure,
                   listing_parses, detail_parses, outer_browser, notOrchVars>>

\* 52-60: property_data = detail_parser.parse_detail(html); return property_data
SvcParseDetail(p) ==
    /\ pc[p] = "f53"
    /\ html[p].tree_ok
    /\ detail_parses' = [detail_parses EXCEPT ![p] = @ + 1]
    /\ LET property_data == ParseDetailResult(html[p])
       IN  SetRet(p, Returning(IF property_data.present
                               THEN RecordValue(property_data.rec)
                               ELSE NoneValue))
    /\ Goto(p, "f63")
    /\ UNCHANGED <<kind, target, browser, sessions, html, properties,
                   property_url, failure, listing_parses, outer_browser,
                   notOrchVars>>

\* 53: parse_detail raises; fetch_property_detail has no except clause
SvcParseDetailFails(p) ==
    /\ pc[p] = "f53"
    /\ ~html[p].tree_ok
    /\ detail_parses' = [detail_parses EXCEPT ![p] = @ + 1]
    /\ SetFailure(p, "parse")
    /\ SetRet(p, Raising)
    /\ Goto(p, "f63")
    /\ UNCHANGED <<kind, target, browser, sessions, html, properties,
                   property_url, listing_parses, outer_browser, notOrchVars>>

\* 62-63: finally: self.browser.close().  Called by search_by_address (120),
\* the method hands its value back to it, and what it raises is caught at 122.
SvcDetailFinallyClose(p) ==
    /\ pc[p] = "f63"
    /\ sessions' = CloseOn(sessions, browser[p], p)
    /\ \E raised \in BOOLEAN :
          LET raises == raised \/ ret[p].state = "raising"
          IN  /\ failure' = [failure EXCEPT ![p] = IF raised THEN "close" ELSE @]
              /\ IF outer_browser[p] = NoSession
                 THEN /\ SetRet(p, IF raises THEN Raised ELSE Returned(ret[p].value))
                      /\ Goto(p, "done")
                      /\ UNCHANGED <<browser, outer_browser>>
                 ELSE /\ SetRet(p, Returning(IF raises THEN NoneValue
                                             ELSE ret[p].value))
                      /\ Goto(p, "s126")
                      /\ browser' = [browser EXCEPT ![p] = outer_browser[p]]
                      /\ outer_browser' = [outer_browser EXCEPT ![p] = NoSession]
    /\ UNCHANGED <<kind, target, html, properties, property_url,
                   listing_parses, detail_parses, notOrchVars>>

\* 86-94: html = self.browser.fetch_source(search_url); if not html: return None
SvcFetchSearch(p) ==
    /\ pc[p] = "s86"
    /\ \E h \in FetchResults :
          /\ html' = [html EXCEPT ![p] = h]
          /\ IF NotHtml(h)
             THEN Goto(p, "s126") /\ SetRet(p, Returning(NoneValue))
             ELSE Goto(p, "s97") /\ UNCHANGED ret
    /\ sessions' = FetchOn(sessions, browser[p], p, SearchUrl(target[p]))
    /\ UNCHANGED <<kind, target, browser, properties, property_url, failure,
                   listing_parses, detail_parses, outer_browser, notOrchVars>>

\* 97-109: properties = self.parser.parse(html) and the tests on its result
SvcParseSearch(p) ==
    /\ pc[p] = "s97"
    /\ html[p].tree_ok
    /\ listing_parses' = [listing_parses EXCEPT ![p] = @ + 1]
    /\ LET props == ParseCards(html[p].cards)
       IN  /\ properties' = [properties EXCEPT ![p] = props]
           /\ IF props = <<>>
              THEN /\ Goto(p, "s126")
                   /\ SetRet(p, Returning(NoneValue))
                   /\ UNCHANGED property_url
              ELSE /\ property_url' = [property_url EXCEPT ![p] = FirstLink(props)]
                   /\ IF Unusable(FirstLink(props))
                      THEN Goto(p, "s126") /\ SetRet(p, Returning(NoneValue))
                      ELSE Goto(p, "s117") /\ UNCHANGED ret
    /\ UNCHANGED <<kind, target, browser, sessions, html, failure,
                   detail_parses, outer_browser, notOrchVars>>

\* 97: the parser raises; 122-124: except Exception: return None
SvcParseSearchFails(p) ==
    /\ pc[p] = "s97"
    /\ ~html[p].tree_ok
    /\ listing_parses' = [listing_parses EXCEPT ![p] = @ + 1]
    /\ SetFailure(p, "parse")
    /\ SetRet(p, Returning(NoneValue))
    /\ Goto(p, "s126")
    /\ UNCHANGED <<kind, target, browser, sessions, html, properties,
                   property_url, detail_parses, outer_browser, notOrchVars>>

\* 117-120: detail_browser = SmartScrollerBrowser(headless=self.browser.headless)
\* and detail_service.fetch_property_detail(property_url).  Reading an attribute
\* the browser does not have raises AttributeError, caught at 122-124.
SvcOpenDetailBrowser(p) ==
    /\ pc[p] = "s117"
    /\ IF "headless" \notin BrowserAttributes
       THEN /\ SetFailure(p, "attribute")
            /\ SetRet(p, Returning(NoneValue))
            /\ Goto(p, "s126")
            /\ UNCHANGED <<browser, sessions, outer_browser>>
       ELSE \E ok \in BOOLEAN :
               IF ok
               THEN /\ sessions' = OpenSession(sessions, NewSessionId(p), p)
                    /\ outer_browser' = [outer_browser EXCEPT ![p] = browser[p]]
                    /\ browser' = [browser EXCEPT ![p] = NewSessionId(p)]
                    /\ Goto(p, "f43")
                    /\ UNCHANGED <<ret, failure>>
               ELSE /\ SetFailure(p, "open")
                    /\ SetRet(p, Returning(NoneValue))
                    /\ Goto(p, "s126")
                    /\ UNCHANGED <<browser, sessions, outer_browser>>
    /\ UNCHANGED <<kind, target, html, properties, property_url,
                   listing_parses, detail_parses, notOrchVars>>

\* A search_by_address without the finally clause
SvcSearchFinallyClose_Skipped(p) ==
    /\ pc[p] = "s126"
    /\ SetRet(p, Returned(ret[p].value))
    /\ Goto(p, "done")
    /\ UNCHANGED <<kind, target, browser, sessions, html, properties,
                   property_url, failure, listing_parses, detail_parses,
                   outer_browser, notOrchVars>>

\* 125-126: finally: self.browser.close()
SvcSearchFinallyClose(p) ==
    /\ pc[p] = "s126"
    /\ sessions' = CloseOn(sessions, browser[p], p)
    /\ \E raised \in BOOLEAN :
          IF raised
          THEN SetFailure(p, "close") /\ SetRet(p, Raised)
          ELSE SetRet(p, Returned(ret[p].value)) /\ UNCHANGED failure
    /\ Goto(p, "done")
    /\ UNCHANGED <<kind, target, browser, html, properties, property_url,
                   listing_parses, detail_parses, outer_browser, notOrchVars>>

Next ==
    \E p \in Procs :
        \/ OpenBrowser(p) \/ OpenBrowserFails(p)
        \/ Classify(p)
        \/ FetchSearch(p)
        \/ ParseSearch(p) \/ ParseSearchFails(p)
        \/ CloseAndReturnNone(p)
        \/ CloseSearchBrowser(p)
        \/ OpenDetailBrowser(p) \/ OpenDetailBrowserFails(p)
        \/ FetchDetail(p)
        \/ ParseDetail(p) \/ ParseDetailFails(p)
        \/ FinallyClose(p)
        \/ PipelineOpenBrowser(p) \/ PipelineOpenBrowserFails(p)
        \/ RunFetch(p)
        \/ RunParse(p) \/ RunParseFails(p)
        \/ RunFinallyClose(p)

\* Next, and the methods of ZillowService called directly
\* The kinds of call made directly on a ZillowService
ReuseKinds == {"service_run", "service_detail", "service_search"}

\* How many calls a caller makes on one service
MaxCalls == 2

\* The first statement of run, fetch_property_detail, search_by_address
EntryOf(k) ==
    CASE k = "service_run" -> "r18"
      [] k = "service_detail" -> "f43"
      [] k = "service_search" -> "s86"

\* The caller calls the method again on the same service: self.browser is
\* the browser given to __init__ (services.py 10-13), whatever happened to it
SvcCallAgain(p) ==
    /\ pc[p] = "done"
    /\ kind[p] \in ReuseKinds
    /\ Len(sessions[<<p, 1>>].fetches) < MaxCalls
    /\ Goto(p, EntryOf(kind[p]))
    /\ html' = [html EXCEPT ![p] = EmptyHtml]
    /\ properties' = [properties EXCEPT ![p] = <<>>]
    /\ property_url' = [property_url EXCEPT ![p] = <<>>]
    /\ SetRet(p, Running)
    /\ SetFailure(p, "none")
    /\ UNCHANGED <<kind, target, browser, sessions, listing_parses,
                   detail_parses, outer_browser, notOrchVars>>

NextReuse ==
    \E p \in Procs :
        \/ RunFetch(p)
        \/ RunParse(p) \/ RunParseFails(p)
        \/ RunFinallyClose(p)
        \/ SvcFetchDetail(p)
        \/ SvcParseDetail(p) \/ SvcParseDetailFails(p)
        \/ SvcDetailFinallyClose(p)
        \/ SvcFetchSearch(p)
        \/ SvcParseSearch(p) \/ SvcParseSearchFails(p)
        \/ SvcOpenDetailBrowser(p)
        \/ SvcSearchFinallyClose(p)
        \/ SvcCallAgain(p)

NextService ==
    \/ Next
    \/ \E p \in Procs :
          \/ SvcFetchDetail(p)
          \/ SvcParseDetail(p) \/ SvcParseDetailFails(p)
          \/ SvcDetailFinallyClose(p)
          \/ SvcFetchSearch(p)
          \/ SvcParseSearch(p) \/ SvcParseSearchFails(p)
          \/ SvcOpenDetailBrowser(p)
          \/ SvcSearchFinallyClose(p)


(***************************************************************************)
(* Initial states and specifications                                       *)
(***************************************************************************)

IdleParser ==
    /\ p_pc = "idle"
    /\ p_html = EmptyHtml
    /\ p_results = <<>>

IdleBrowser ==
    /\ b_pc = "idle"
    /\ BrowserLocalsInit

IdleDetail ==
    /\ d_pc = "idle"
    /\ d_page = EmptyDetailPage
    /\ d_result = NoRecord
    /\ d_csv = <<>>

IdleComp ==
    /\ k_pc = "idle"
    /\ k_page = EmptyCompPage
    /\ k_result = NoDetail

IdleCli ==
    /\ c_pc = "idle"
    /\ c_target = <<>>
    /\ c_call = NotCalled

OrchLocalsInit ==
    /\ browser = [p \in Procs |-> NoSession]
    /\ sessions = [s \in SessionIds |-> NoSessionYet]
    /\ html = [p \in Procs |-> EmptyHtml]
    /\ properties = [p \in Procs |-> <<>>]
    /\ property_url = [p \in Procs |-> <<>>]
    /\ ret = [p \in Procs |-> Running]
    /\ failure = [p \in Procs |-> "none"]
    /\ listing_parses = [p \in Procs |-> 0]
    /\ detail_parses = [p \in Procs |-> 0]
    /\ outer_browser = [p \in Procs |-> NoSession]

IdleOrch ==
    /\ pc = [p \in Procs |-> "idle"]
    /\ kind = [p \in Procs |-> "detail"]
    /\ target = [p \in Procs |-> UrlTarget]
    /\ OrchLocalsInit

\* Every invocation is a call of fetch_property_by_address or of fetch_listings
Init ==
    /\ kind \in [Procs -> {"detail", "listings"}]
    /\ target \in [Procs -> Targets]
    /\ pc = [p \in Procs |-> IF kind[p] = "detail" THEN "d81" ELSE "p63"]
    /\ OrchLocalsInit
    /\ IdleParser
    /\ IdleBrowser
    /\ IdleDetail
    /\ IdleComp
    /\ IdleCli

Spec == Init /\ [][Next]_vars

InitParser ==
    /\ p_pc = "ready"
    /\ p_html \in Htmls
    /\ p_results = <<>>
    /\ IdleBrowser
    /\ IdleOrch
    /\ IdleDetail
    /\ IdleComp
    /\ IdleCli


SpecParser == InitParser /\ [][NextParser]_vars

ServiceKinds == {"service_detail", "service_search"}

\* Every invocation is a call of one of the two API functions, or a call of
\* fetch_property_detail or search_by_address on a ZillowService of its own,
\* which was built with a browser (services.py 10-13)
InitService ==
    /\ kind \in [Procs -> {"detail", "listings"} \cup ServiceKinds]
    /\ target \in [Procs -> Targets]
    /\ pc = [p \in Procs |->
                CASE kind[p] = "detail" -> "d81"
                  [] kind[p] = "listings" -> "p63"
                  [] kind[p] = "service_detail" -> "f43"
                  [] kind[p] = "service_search" -> "s86"]
    /\ browser = [p \in Procs |->
                     IF kind[p] \in ServiceKinds THEN <<p, 1>> ELSE NoSession]
    /\ sessions = [s \in SessionIds |->
                      IF kind[s[1]] \in ServiceKinds /\ s[2] = 1
                      THEN [NoSessionYet EXCEPT !.opened = TRUE, !.creator = s[1]]
                      ELSE NoSessionYet]
    /\ html = [p \in Procs |-> EmptyHtml]
    /\ properties = [p \in Procs |-> <<>>]
    /\ property_url = [p \in Procs |-> <<>>]
    /\ ret = [p \in Procs |-> Running]
    /\ failure = [p \in Procs |-> "none"]
    /\ listing_parses = [p \in Procs |-> 0]
    /\ detail_parses = [p \in Procs |-> 0]
    /\ outer_browser = [p \in Procs |-> NoSession]
    /\ IdleParser
    /\ IdleBrowser
    /\ IdleDetail
    /\ IdleComp
    /\ IdleCli

SpecService == InitService /\ [][NextService]_vars

\* One caller built a ZillowService with a browser of its own and calls one
\* of its three methods, up to MaxCalls times; no other invocation runs
InitReuse ==
    /\ \E k \in ReuseKinds :
          kind = [p \in Procs |-> IF p = 1 THEN k ELSE "detail"]
    /\ \E t \in Targets :
          target = [p \in Procs |-> IF p = 1 THEN t ELSE UrlTarget]
    /\ pc = [p \in Procs |-> IF p = 1 THEN EntryOf(kind[p]) ELSE "idle"]
    /\ browser = [p \in Procs |-> IF p = 1 THEN <<p, 1>> ELSE NoSession]
    /\ sessions = [s \in SessionIds |->
                      IF s = <<1, 1>>
                      THEN [NoSessionYet EXCEPT !.opened = TRUE, !.creator = s[1]]
                      ELSE NoSessionYet]
    /\ html = [p \in Procs |-> EmptyHtml]
    /\ properties = [p \in Procs |-> <<>>]
    /\ property_url = [p \in Procs |-> <<>>]
    /\ ret = [p \in Procs |-> Running]
    /\ failure = [p \in Procs |-> "none"]
    /\ listing_parses = [p \in Procs |-> 0]
    /\ detail_parses = [p \in Procs |-> 0]
    /\ outer_browser = [p \in Procs |-> NoSession]
    /\ IdleParser
    /\ IdleBrowser
    /\ IdleDetail
    /\ IdleComp
    /\ IdleCli

SpecReuse == InitReuse /\ [][NextReuse]_vars

InitBrowser ==
    /\ b_pc = "navigate"
    /\ BrowserLocalsInit
    /\ IdleParser
    /\ IdleOrch
    /\ IdleDetail
    /\ IdleComp
    /\ IdleCli

SpecBrowser == InitBrowser /\ [][NextBrowser]_vars

\* The statements of fetch_source and of the functions it calls: the thread
\* that runs fetch_source executes its next statement
ProgramStep ==
    \/ Navigate
    \/ FindFound \/ FindNext \/ FindBody
    \/ ScrollStep \/ Measure \/ Recheck
    \/ Snapshot

\* fetch_source on a thread that is always scheduled again; the failures of
\* driver calls and the page's lazy loading may happen or not
SpecBrowserFair == SpecBrowser /\ WF_vars(ProgramStep)

InitDetail ==
    /\ d_pc = "ready"
    /\ d_page \in DetailPages
    /\ d_result = NoRecord
    /\ d_csv = <<>>
    /\ IdleParser
    /\ IdleBrowser
    /\ IdleOrch
    /\ IdleComp
    /\ IdleCli

SpecDetail == InitDetail /\ [][NextDetail]_vars

InitComp ==
    /\ k_pc = "ready"
    /\ k_page \in CompPages
    /\ k_result = NoDetail
    /\ IdleParser
    /\ IdleBrowser
    /\ IdleOrch
    /\ IdleDetail
    /\ IdleCli

SpecComp == InitComp /\ [][NextComp]_vars

InitCli ==
    /\ c_pc = "main"
    /\ c_target \in CliTargets
    /\ c_call = NotCalled
    /\ IdleParser
    /\ IdleBrowser
    /\ IdleOrch
    /\ IdleDetail
    /\ IdleComp

SpecCli == InitCli /\ [][NextCli]_vars

(***************************************************************************)
(* Claims about the entry points of api.py                                 *)
(***************************************************************************)

Session(p, k) == sessions[<<p, k>>]
IsOpen(s) == s.opened /\ s.closes = 0
InAddressFlow(p) == kind[p] = "detail" /\ target[p] = AddressTarget
InUrlFlow(p) == kind[p] = "detail" /\ target[p] \in {UrlTarget, HttpTarget}

\* C1: on every terminal path of _execute_property_detail_fetch the session
\* that is open at that point has had close() called exactly once when the
\* function has returned.
C1_ClosedExactlyOnce ==
    \A p \in Procs :
        (kind[p] = "detail" /\ pc[p] = "done" /\ browser[p] # NoSession) =>
            sessions[browser[p]].closes = 1

\* C2: in the address flow the search session is closed before the detail
\* session is opened, so the two sessions of one resolution are never open
\* together, and the detail page is fetched on the second session only: the
\* search session sees the search URL and nothing else.
C2_SessionHandOver ==
    \A p \in Procs :
        kind[p] = "detail" =>
            /\ Session(p, 2).opened => Session(p, 1).closes >= 1
            /\ ~(IsOpen(Session(p, 1)) /\ IsOpen(Session(p, 2)))
            /\ InAddressFlow(p) =>
                  /\ \A i \in 1..Len(Session(p, 1).fetches) :
                        Session(p, 1).fetches[i] = SearchUrl(target[p])
                  /\ Len(Session(p, 1).fetches) <= 1
                  /\ \A i \in 1..Len(Session(p, 2).fetches) :
                        Session(p, 2).fetches[i] = property_url[p]
                  /\ pc[p] \in {"d134", "d139"} =>
                        /\ browser[p] = <<p, 2>>
                        /\ Session(p, 2).fetches = <<property_url[p]>>

\* The detail page has been fetched on the second session, the first is closed
C2_Witness ==
    \E p \in Procs :
        /\ InAddressFlow(p)
        /\ pc[p] = "d139"
        /\ Session(p, 1).closes = 1
        /\ Session(p, 1).fetches = <<SearchUrl(target[p])>>
        /\ IsOpen(Session(p, 2))
        /\ Session(p, 2).fetches = <<property_url[p]>>
        /\ property_url[p] # SearchUrl(target[p])

\* The state an invocation owns: its locals and the sessions it created
OwnState(q) ==
    <<pc[q], kind[q], target[q], browser[q], html[q], properties[q],
      property_url[q], ret[q], failure[q], listing_parses[q],
      Session(q, 1), Session(q, 2)>>

\* C3: of two invocations running concurrently each fetches on and closes
\* only the sessions it created itself, under every interleaving, and a step
\* of one invocation changes nothing the other owns.
C3_SessionsNotShared ==
    /\ [](\A s \in SessionIds :
             /\ sessions[s].users \subseteq {sessions[s].creator}
             /\ sessions[s].opened => sessions[s].creator = s[1])
    /\ [](\A p \in Procs :
             browser[p] # NoSession => sessions[browser[p]].creator = p)
    /\ [][\A p \in Procs :
             pc'[p] # pc[p] =>
                 \A q \in Procs \ {p} : OwnState(q)' = OwnState(q)]_vars

\* Both invocations have a session open and have fetched on it
C3_Witness ==
    /\ IsOpen(Session(1, 1)) /\ Session(1, 1).fetches # <<>>
    /\ IsOpen(Session(2, 1)) /\ Session(2, 1).fetches # <<>>
    /\ Session(1, 1).users = {1}
    /\ Session(2, 1).users = {2}

\* The listing extractor returned, with no record or an unusable first link
SearchFailed(p) ==
    /\ InAddressFlow(p)
    /\ listing_parses[p] >= 1
    /\ html[p].tree_ok
    /\ \/ properties[p] = <<>>
       \/ properties[p][1].link = <<>>
       \/ properties[p][1].link = NA

\* C4: for an address whose search yields no record, or a first record whose
\* link is empty or "N/A", the resolution fails: it never returns a record,
\* fetches nothing but the search page, opens no second session, runs the
\* listing extractor once, and takes no link from a later record.
C4_NoResultIsTerminal ==
    \A p \in Procs :
        SearchFailed(p) =>
            /\ pc[p] \in {"d109", "d117", "d152", "done"}
            /\ ~Session(p, 2).opened
            /\ Session(p, 1).fetches = <<SearchUrl(target[p])>>
            /\ listing_parses[p] = 1
            /\ property_url[p] =
                  (IF properties[p] = <<>> THEN <<>> ELSE properties[p][1].link)
            /\ ret[p].value = NoneValue
            /\ (pc[p] = "done" /\ failure[p] = "none") => ret[p] = Returned(NoneValue)

\* The first record has no link, a later one has: the call returned None
C4_Witness ==
    \E p \in Procs :
        /\ SearchFailed(p)
        /\ Len(properties[p]) = 2
        /\ properties[p][1].link = <<>>
        /\ properties[p][2].link \notin {<<>>, NA}
        /\ ret[p] = Returned(NoneValue)

\* C5: a target that starts with http:// or https:// goes straight to the
\* detail fetch (api.py 84-130, entered once the session of line 81 exists):
\* the invocation makes exactly one fetch_source call, with the target as its
\* argument, fetches no search URL and does not run the listing extractor;
\* for any other target the first fetch is the search URL built from the
\* percent-encoded address ("1 Elm, A" gives .../homes/1%20Elm%2C%20A_rb/).
C5_UrlGoesToDetailFetch ==
    \A p \in Procs :
        /\ InUrlFlow(p) =>
              /\ listing_parses[p] = 0
              /\ ~Session(p, 2).opened
              /\ \A i \in 1..Len(Session(p, 1).fetches) :
                    Session(p, 1).fetches[i] = target[p]
              /\ Len(Session(p, 1).fetches) <= 1
              /\ (pc[p] \in {"d134", "d139", "d152"}
                  \/ (pc[p] = "done" /\ Session(p, 1).opened)) =>
                    Session(p, 1).fetches = <<target[p]>>
        /\ InAddressFlow(p) =>
              /\ Session(p, 2).fetches # <<>> => Session(p, 1).fetches # <<>>
              /\ Session(p, 1).fetches # <<>> =>
                    Session(p, 1).fetches[1] =
                        <<"h", "t", "t", "p", "s", ":", "/", "/", "w", "w", "w", ".",
                          "z", "i", "l", "l", "o", "w", ".", "c", "o", "m", "/", "h",
                          "o", "m", "e", "s", "/", "1", "%", "2", "0", "E", "l", "m",
                          "%", "2", "C", "%", "2", "0", "A", "_", "r", "b", "/">>
              /\ pc[p] \in {"d101", "d105"} => Session(p, 1).fetches # <<>>

\* An http:// target was fetched directly and a record returned
C5_Witness ==
    \E p \in Procs :
        /\ kind[p] = "detail"
        /\ target[p] = HttpTarget
        /\ pc[p] = "done"
        /\ Session(p, 1).fetches = <<HttpTarget>>
        /\ ret[p] = Returned(DetailValue(HttpTarget))

\* C8: _execute_pipeline and _execute_property_detail_fetch never let a
\* failure reach their caller: whatever fails (opening a session, fetching,
\* extracting, closing a session), the call returns [] or None.
C8_NoFailurePropagates ==
    \A p \in Procs : ret[p].state # "raised"

\* C27: no session leaks from _execute_property_detail_fetch: when the
\* function has returned, normally or after a caught exception, close() has
\* been called at least once on every session opened during the call, the
\* initial one and the detail session opened after a successful search.
C27_NoSessionLeak ==
    \A p \in Procs :
        (kind[p] = "detail" /\ pc[p] = "done" /\ ret[p].state = "returned") =>
            \A k \in {1, 2} :
                Session(p, k).opened => Session(p, k).closes >= 1

\* A resolution by address has returned; it opened two sessions and fetched
\* on both
C27_Witness ==
    \E p \in Procs :
        /\ InAddressFlow(p)
        /\ pc[p] = "done"
        /\ ret[p].state = "returned"
        /\ Session(p, 1).opened /\ Session(p, 1).closes >= 1
        /\ Session(p, 2).opened /\ Session(p, 2).closes >= 1
        /\ Session(p, 2).fetches # <<>>

\* C28: in _execute_property_detail_fetch fetch_source is never called on a
\* session after close() has been called on that session.
C28_NoFetchAfterClose ==
    \A p \in Procs :
        kind[p] = "detail" =>
            \A k \in {1, 2} : ~Session(p, k).late

\* The search session is closed and was fetched on before that; the detail
\* page has been fetched on the session opened afterwards
C28_Witness ==
    \E p \in Procs :
        /\ InAddressFlow(p)
        /\ pc[p] \in {"d134", "d139"}
        /\ Session(p, 1).closes = 1
        /\ Len(Session(p, 1).fetches) = 1
        /\ ~Session(p, 1).late
        /\ Len(Session(p, 2).fetches) = 1
        /\ Session(p, 2).closes = 0

(***************************************************************************)
(* Claims about SmartScrollerBrowser                                       *)
(***************************************************************************)

\* C6: fetch_source never raises: when navigation, the lookup of the scroll
\* container (the body fallback included), a script of the scroll loop or the
\* read of the page source fails, the call returns the empty string.
C6_FetchNeverRaises ==
    /\ ~b_raised
    /\ b_error # "none" => (b_pc = "returned" /\ b_result = EmptyHtml)

\* A script of the scroll loop failed after at least one scroll step
C6_Witness ==
    /\ b_pc = "returned"
    /\ b_error = "script"
    /\ current_position > 0
    /\ b_result = EmptyHtml

\* C7: the scroll loop is left (other than by a failure) only from an
\* iteration whose reads showed the bottom reached, offset + visible height
\* >= total height - 100, and whose re-read of the total height after the long
\* pause equals the height read before it; an iteration that did not reach the
\* bottom, or that saw the height grow, goes on to the next scroll step.
C7_LoopExitsOnlyWhenStable ==
    [][ /\ (b_pc # "snapshot" /\ b_pc' = "snapshot") =>
              /\ b_pc = "recheck"
              /\ scrolled_height + visible_height >= total_height - 100
              /\ el.scrollHeight = total_height
        /\ (b_pc = "measure" /\ b_pc' \notin {"measure", "returned"}) =>
              b_pc' = IF scrolled_height' + visible_height' >= total_height' - 100
                      THEN "recheck" ELSE "scroll"
        /\ (b_pc = "recheck" /\ b_pc' \notin {"recheck", "returned"}
              /\ el.scrollHeight # total_height) =>
              (b_pc' = "scroll" /\ total_height' = el.scrollHeight)
      ]_vars

\* The loop was left after the container had grown and been scrolled further
C7_Witness ==
    /\ b_pc = "snapshot"
    /\ grows = MaxGrow
    /\ el.honours
    /\ el.scrollHeight = total_height
    /\ scrolled_height + visible_height >= total_height - 100
    /\ current_position > 2 * ChunkMax


\* The order of the steps of fetch_source
StepOrder ==
    {<<"navigate", "find">>, <<"find", "scroll">>, <<"scroll", "measure">>,
     <<"measure", "scroll">>, <<"measure", "recheck">>, <<"recheck", "scroll">>,
     <<"recheck", "snapshot">>, <<"snapshot", "returned">>}

\* C25: in every fetch_source call that returns non-empty HTML the steps
\* occur in the order navigate (with the settle wait), locate the scroll
\* container, scroll loop, page-source snapshot: the snapshot is read only
\* after the scroll loop has terminated, after at least one scroll step, and
\* never while the loop is still running.
C25_SnapshotAfterScrollLoop ==
    /\ [][b_pc' # b_pc =>
             \/ <<b_pc, b_pc'>> \in StepOrder
             \/ b_pc' = "returned" /\ b_result' = EmptyHtml]_vars
    /\ [][b_result' # b_result => b_pc = "snapshot"]_vars
    /\ [](b_pc \in {"snapshot", "returned"} /\ b_error = "none" =>
             /\ el.found
             /\ current_position >= ChunkMin
             /\ HitBottom(scrolled_height, visible_height, total_height))
    /\ [](b_pc = "returned" /\ ~b_result.empty => b_error = "none")

\* A page with a card was returned after a scroll loop of several steps
C25_Witness ==
    /\ b_pc = "returned"
    /\ ~b_result.empty
    /\ b_result.cards # <<>>
    /\ current_position > ChunkMax
    /\ sel > NumSelectors

\* The container does not scroll and its content exceeds the visible height
\* by more than the slack
NeverAtBottom(e) ==
    e.found /\ ~e.honours /\ e.scrollHeight - e.clientHeight > BottomSlack

\* C26: when the container honours scrolling and its total height grows
\* finitely often, the scroll loop terminates and fetch_source returns; a
\* bottom check that sees the height grown never leaves the loop, so a
\* height that grows at every bottom check keeps the loop running, and so
\* does a container whose offset never advances while its content exceeds
\* the visible height by more than the 100-unit slack.
C26_ScrollLoopTermination ==
    /\ (b_pc = "scroll" /\ el.honours) ~> (b_pc = "returned")
    /\ [](el.honours /\ b_pc = "scroll" =>
             current_position + ChunkMax <= MaxPosition)
    /\ [][(b_pc = "recheck" /\ el.scrollHeight # total_height) =>
             b_pc' \in {"recheck", "scroll", "returned"}
             /\ (b_pc' = "returned" => b_error' # "none")]_vars
    /\ [][NeverAtBottom(el) =>
             /\ b_pc' # "snapshot"
             /\ b_pc # "recheck" => b_pc' # "recheck"
             /\ (b_pc # "returned" /\ b_pc' = "returned") => b_error' # "none"]_vars

\* A container that honours scrolling grew as often as the model allows and
\* the call returned without a failure
C26_Witness ==
    /\ b_pc = "returned"
    /\ b_error = "none"
    /\ el.honours
    /\ grows = MaxGrow
    /\ el.scrollTop > 0

\* A container that does not scroll has been scrolled as far as the model
\* follows it and the loop is still running
C26_WitnessStuck ==
    /\ b_pc = "scroll"
    /\ NeverAtBottom(el)
    /\ current_position + ChunkMin > MaxPosition

(***************************************************************************)
(* Claims about ZillowExactParser.parse                                    *)
(***************************************************************************)

NoCardRaises(cards) == \A i \in 1..Len(cards) : ~cards[i].raises

\* C9: parse returns exactly one record per card marker, in document order:
\* when the parse tree has N card markers and no card's processing fails, the
\* result has N records and the i-th record is the one extracted from the
\* i-th card; for a page with no card marker the call returns the empty
\* sequence and does not raise.
C9_OneRecordPerCard ==
    LET cards == p_html.cards
    IN  /\ (p_pc = "done" /\ NoCardRaises(cards)) =>
              /\ Len(p_results) = Len(cards)
              /\ \A i \in 1..Len(cards) : p_results[i] = ParseCard(cards[i])
        /\ (p_pc # "ready" /\ p_html.tree_ok /\ cards = <<>>) =>
              (p_pc = "done" /\ p_results = <<>>)

\* Two cards, none failing, two different records in the cards' order
C9_Witness ==
    /\ p_pc = "done"
    /\ p_html.cards = <<EmptyCard, FullCard>>
    /\ Len(p_results) = 2
    /\ p_results[1].price = NA
    /\ p_results[2].price = <<"$", "1">>

\* A page without card markers was parsed
C9_WitnessNoCards ==
    p_pc = "done" /\ ~p_html.empty /\ p_html.cards = <<>> /\ p_results = <<>>

\* How many of the first n cards raise
RaisingBefore(cards, n) == Cardinality({j \in 1..n : cards[j].raises})

\* C11: an exception raised while one card is processed skips exactly that
\* card: the result holds the records of all the other cards, those before
\* and those after it, in their original order, and parse does not raise.
C11_FailingCardIsSkipped ==
    LET cards == p_html.cards
    IN  /\ (p_pc # "ready" /\ p_html.tree_ok) => p_pc = "done"
        /\ p_pc = "done" =>
              /\ Len(p_results) = Len(cards) - RaisingBefore(cards, Len(cards))
              /\ \A i \in 1..Len(cards) :
                    ~cards[i].raises =>
                        p_results[i - RaisingBefore(cards, i)] = ParseCard(cards[i])

\* A failing card between two others: both others are returned, in order
C11_Witness ==
    /\ p_pc = "done"
    /\ p_html.cards = <<FullCard, RaisingCard, AbsLinkCard>>
    /\ p_results = <<ParseCard(FullCard), ParseCard(AbsLinkCard)>>

\* The class of a details item: substring match on the lower-cased text, beds
\* before baths before sqft
LiClass(li) ==
    LET text == Lower(GetTextSep(li))
    IN  IF Contains(text, <<"b", "d", "s">>) \/ Contains(text, <<"b", "d">>) THEN "beds"
        ELSE IF Contains(text, <<"b", "a">>) THEN "baths"
        ELSE IF Contains(text, <<"s", "q", "f", "t">>) THEN "sqft"
        ELSE "none"

\* Three values no item text produces
Marked == [beds |-> <<"?", "1">>, baths |-> <<"?", "2">>, sqft |-> <<"?", "3">>]

\* C24: each item of a card's details list updates at most one of beds,
\* baths, sqft, chosen by substring match on the lower-cased text with the
\* priority beds ("bds"/"bd"), baths ("ba"), sqft ("sqft"); the other fields
\* are left unchanged by that item, an item matching no token changes
\* nothing, and of several items of one class the last in document order
\* determines the value.
C24_OneFieldPerItem ==
    p_pc = "done" =>
        \A i \in 1..Len(p_html.cards) :
            LET card == p_html.cards[i]
                lis == card.details_ul.lis
            IN  (~card.raises /\ card.details_ul.present) =>
                  LET rec == p_results[i - RaisingBefore(p_html.cards, i)]
                  IN  /\ \A k \in 1..Len(lis) : \A f \in {"beds", "baths", "sqft"} :
                            f # LiClass(lis[k]) =>
                                ClassifyLi(Marked, lis[k])[f] = Marked[f]
                      /\ \A f \in {"beds", "baths", "sqft"} :
                            LET ks == {k \in 1..Len(lis) : LiClass(lis[k]) = f}
                            IN  IF ks = {} THEN rec[f] = NA
                                ELSE LET last == CHOOSE k \in ks : \A j \in ks : j <= k
                                     IN  rec[f] = ClassifyLi(NoDetails, lis[last])[f]

\* Two beds items, the second also carrying the baths token; an item
\* without a token; an item with the baths and the sqft token
C24_Witness ==
    /\ p_pc = "done"
    /\ p_html.cards = <<MixedCard>>
    /\ Len(p_results) = 1
    /\ p_results[1].beds = <<"4", " ", "b", "a">>
    /\ p_results[1].baths = <<"5", " ", "s", "q", "f", "t">>
    /\ p_results[1].sqft = NA

ExtractedFields(r) == {r.price, r.address, r.link, r.beds, r.baths, r.sqft}

HasNoChildren(card) ==
    /\ ~card.price_tag.present
    /\ ~card.addr_tag.present
    /\ ~card.link_tag.present
    /\ ~card.details_ul.present

\* C10: a card without any of the expected children yields a record whose
\* price, address, link, beds, baths and sqft are all "N/A", and no extracted
\* field of any emitted record is empty.
C10_EmptyCardAllNA ==
    p_pc = "done" /\ NoCardRaises(p_html.cards) =>
        \A i \in 1..Len(p_results) :
            /\ HasNoChildren(p_html.cards[i]) => ExtractedFields(p_results[i]) = {NA}
            /\ <<>> \notin ExtractedFields(p_results[i])


(***************************************************************************)
(* Claims about parse_detail and to_csv_row (SpecDetail)                   *)
(***************************************************************************)

DetailReturned == d_pc \in {"returned", "written"}

\* The fields parse_detail extracts from the page
DetailFields == {"address", "price", "link", "beds", "baths", "sqft",
                 "property_type", "year_built", "lot_size", "hoa"}

\* C12 as stated: parse_detail on empty input returns the absent result
\* (None), not a record.
C12_EmptyInputGivesNone ==
    (d_page.empty /\ DetailReturned) => ~d_result.present

\* C12, amended: parse_detail on empty input does not raise and returns a
\* record whose every extracted field is "N/A".
C12_EmptyInputGivesAllNA ==
    (d_page.empty /\ d_pc # "ready") =>
        /\ DetailReturned
        /\ d_result.present
        /\ \A f \in DetailFields : d_result.rec[f] = NA

C12_Witness ==
    /\ d_page.empty
    /\ d_pc = "returned"
    /\ d_result.present
    /\ d_result.rec.price = NA
    /\ d_result.rec.address = NA

\* The positions of the price selectors that match a node of the page
MatchingSelectors(page) == {i \in 1..3 : page.price[PriceSelectors[i]].present}

\* C19: the price is the text of the first price selector, in the fixed
\* order, that matches a node, whatever the later selectors match; when none
\* matches the price is "N/A" and a record is still returned; a page with
\* only an address heading gives price "N/A", property_type "N/A" and the
\* address.
C19_FirstPriceSelectorWins ==
    (DetailReturned /\ ~d_page.raises) =>
        /\ d_result.present
        /\ LET m == MatchingSelectors(d_page)
           IN  IF m = {} THEN d_result.rec.price = NA
               ELSE LET first == CHOOSE i \in m : \A j \in m : i <= j
                    IN  d_result.rec.price =
                            Strip(d_page.price[PriceSelectors[first]].text)
        /\ d_page = AddressOnlyPage =>
              /\ d_result.rec.price = NA
              /\ d_result.rec.property_type = NA
              /\ d_result.rec.address = <<"6", " ", "O", "a", "k">>

\* The second and the third selector match: the second gives the price
C19_Witness ==
    /\ d_pc = "returned"
    /\ MatchingSelectors(d_page) = {2, 3}
    /\ d_result.present
    /\ d_result.rec.price = <<"$", "2">>

\* The fields of a row in the order to_csv_row is to return them, and the
\* header column of each
RowFields == <<"timestamp", "price", "beds", "baths", "sqft", "address", "link",
               "property_type", "year_built", "lot_size", "hoa">>

ColumnOf ==
    [timestamp |-> "Scraped_At", price |-> "Price", beds |-> "Beds",
     baths |-> "Baths", sqft |-> "Sqft", address |-> "Address", link |-> "Link",
     property_type |-> "Property_Type", year_built |-> "Year_Built",
     lot_size |-> "Lot_Size", hoa |-> "HOA"]

\* C20: to_csv_row returns exactly 11 elements, in the order timestamp, price,
\* beds, baths, sqft, address, link, property_type, year_built, lot_size, hoa,
\* and position by position this is the order of the header save_to_csv writes.
C20_RowMatchesHeader ==
    d_pc = "written" =>
        LET header == d_csv[1]
            row == d_csv[2]
        IN  /\ Len(row) = 11
            /\ Len(header) = 11
            /\ \A i \in 1..11 :
                  /\ row[i] = d_result.rec[RowFields[i]]
                  /\ header[i] = ColumnOf[RowFields[i]]

\* A written row whose eleven values all differ
C20_Witness ==
    /\ d_pc = "written"
    /\ d_page = FullDetailPage
    /\ Len(d_csv) = 2
    /\ Cardinality({d_csv[2][i] : i \in 1..11}) = 11

BasicFields == {"beds", "baths", "sqft"}

\* C22: the pass over the summary row runs only when one of beds, baths, sqft
\* is still "N/A" after the pass over the facts section, and it changes no
\* field the facts pass resolved: such a field has the same value in the
\* returned record, whatever the summary row holds.
C22_SummaryKeepsResolved ==
    (DetailReturned /\ d_result.present) =>
        LET first == FactsPass(d_page)
        IN  /\ \A f \in BasicFields :
                  first[f] # NA => d_result.rec[f] = first[f]
            /\ (\A f \in BasicFields : first[f] # NA) =>
                  \A f \in BasicFields : d_result.rec[f] = first[f]

\* The facts section resolved beds alone; the summary row names another bed
\* count, which is ignored, and supplies baths and sqft
C22_Witness ==
    /\ d_pc = "returned"
    /\ d_result.present
    /\ FactsPass(d_page) = [beds |-> <<"3">>, baths |-> NA, sqft |-> NA]
    /\ d_page.summary.present
    /\ Len(d_page.summary.lis) = 3
    /\ d_result.rec.beds = <<"3">>
    /\ d_result.rec.baths = <<"1">>
    /\ d_result.rec.sqft = <<"9", "0", "0">>

\* C23: the summary pass classifies a span as the facts pass does: with no
\* facts section and a summary row of one span, the returned beds, baths and
\* sqft are what the facts pass makes of that span.
C23_SummaryClassifiesAsFacts ==
    (DetailReturned /\ d_result.present /\ ~d_page.facts_section.present
        /\ d_page.summary.present /\ Len(d_page.summary.lis) = 1) =>
        LET facts == ClassifyFact(NoDetails, d_page.summary.lis[1])
        IN  \A f \in BasicFields : d_result.rec[f] = facts[f]

\* C15: a detail extractor returns the absent result rather than raising for
\* every failure of the pass, a failure of page-tree construction included.
C15_DetailNeverRaises == d_pc # "raised"


(***************************************************************************)
(* Claims about ZillowComprehensiveDetailParser.parse (SpecComp)           *)
(***************************************************************************)

\* The all-default value of each branch
BranchDefaults ==
    [address |-> AddressInfo, price_details |-> PriceDetails,
     property_basics |-> PropertyBasics, interior_features |-> InteriorFeatures,
     community_amenities |-> CommunityAmenities, location_scores |-> LocationScores,
     nearby_schools |-> <<>>, listing_info |-> ListingInfo]

NothingScanned(page, b) == \A f \in DOMAIN page.scan[b] : ~page.scan[b][f].found

\* The page holds none of the markers branch b looks for
MarkersAbsent(page, b) ==
    IF b = "address" THEN ~page.h1_address.present /\ ~page.h1_first.present
    ELSE IF b = "nearby_schools" THEN ~page.school_section.present
    ELSE IF b = "price_details"
    THEN /\ page.spans = <<>>
         /\ page.divs = <<>>
         /\ ~page.price_testid.present
         /\ ~page.price_ds_value.present
    ELSE IF b = "listing_info" THEN NothingScanned(page, b) /\ ~page.days_text.found
    ELSE NothingScanned(page, b)

\* C13: a returned record has no null sub-section (the nested parking
\* included), and a branch whose markers are absent from the page equals its
\* all-default value.
C13_NoNullSubSection ==
    (k_pc = "returned" /\ k_result.present) =>
        /\ \A b \in Branches :
              /\ ~k_result.rec[b].null
              /\ MarkersAbsent(k_page, b) =>
                    k_result.rec[b].val = BranchDefaults[b]
        /\ ~k_result.rec.community_amenities.val.parking.null

\* A page with price markers but without a heading and without a school
\* section: the address and the schools are the defaults, the price is not
C13_Witness ==
    /\ k_pc = "returned"
    /\ k_result.present
    /\ MarkersAbsent(k_page, "address")
    /\ MarkersAbsent(k_page, "nearby_schools")
    /\ k_result.rec.address = Obj(AddressInfo)
    /\ k_result.rec.nearby_schools = Obj(<<>>)
    /\ k_result.rec.price_details.val.list_price = SomeInt(1200)

\* C14: a failure inside one sub-extraction branch degrades only that branch
\* to its defaults: the record is still returned and every other branch keeps
\* the values it extracted.
C14_BranchFailureIsLocal ==
    (k_pc = "returned" /\ k_page.raises # "none") =>
        /\ k_result.present
        /\ \A b \in Branches :
              k_result.rec[b].val =
                  IF b = k_page.raises THEN BranchDefaults[b]
                  ELSE BranchValues(k_page)[b].val


\* The elements of the page that field f is read from: the price tag, the
\* divs or the spans that carry its marker
MarkedElements(page, f) ==
    IF f = "list_price"
    THEN IF page.price_testid.present THEN {page.price_testid}
         ELSE IF page.price_ds_value.present THEN {page.price_ds_value}
         ELSE {}
    ELSE IF f = "zestimate"
    THEN {page.divs[i] : i \in {j \in 1..Len(page.divs) : HasMarker(f, page.divs[j])}}
    ELSE {page.spans[i] : i \in {j \in 1..Len(page.spans) : HasMarker(f, page.spans[j])}}

\* The text field f takes its number from
SourceText(f, e) ==
    IF f \in {"list_price", "price_per_sqft"} THEN e.text
    ELSE IF f = "zestimate" THEN e
    ELSE e.parent

HasDigit(text) == \E i \in 1..Len(text) : IsDigit(text[i])

\* C21: every optional numeric field of PriceDetails is either absent or an
\* integer parsed from the text of an element that carries the field's
\* marker: a field whose marker is missing, or whose text does not convert,
\* stays absent, never a default 0, and the failure aborts neither the price
\* branch (the other fields are still extracted) nor the record.
C21_PriceFieldsAbsentOrParsed ==
    (k_pc = "returned" /\ k_page.raises = "none") =>
        /\ k_result.present
        /\ ~k_result.rec.price_details.null
        /\ \A f \in DOMAIN PriceDetails :
              LET v == k_result.rec.price_details.val[f]
                  from == MarkedElements(k_page, f)
              IN  /\ v.some =>
                        \E e \in from :
                            /\ FieldInt(f, e) = v
                            /\ HasDigit(SourceText(f, e))
                  /\ (\A e \in from : ~HasDigit(SourceText(f, e))) => v = NoInt
                  /\ (\A e \in from : ~FieldInt(f, e).some) => v = NoInt

\* The list price and the price per square foot do not convert; the
\* Zestimate and the assessed value are extracted all the same
C21_Witness ==
    /\ k_pc = "returned"
    /\ k_result.present
    /\ k_page.price_testid = Tag(<<"C", "a", "l", "l">>)
    /\ Len(k_page.spans) = 2
    /\ HasMarker("price_per_sqft", k_page.spans[1])
    /\ k_result.rec.price_details.val =
          [list_price |-> NoInt, price_per_sqft |-> NoInt,
           est_monthly_payment |-> NoInt, zestimate |-> SomeInt(3000),
           tax_assessed_value |-> SomeInt(5000), annual_tax_amount |-> NoInt]

(***************************************************************************)
(* Claims about main (SpecCli)                                             *)
(***************************************************************************)

HasScheme(t) == StartsWith(t, <<"h", "t", "t", "p", ":", "/", "/">>) \/ StartsWith(t, <<"h", "t", "t", "p", "s", ":", "/", "/">>)

HasDetailMarker(t) == Contains(t, <<"/", "h", "o", "m", "e", "d", "e", "t", "a", "i", "l", "s", "/">>)

\* A search path marker: /homes, or a hyphenated path on zillow.com
HasSearchMarker(t) ==
    Contains(t, <<"/", "h", "o", "m", "e", "s">>) \/ (Contains(t, <<"-">>) /\ Contains(t, <<"z", "i", "l", "l", "o", "w", ".", "c", "o", "m">>))

\* Listing-search URLs go to fetch_listings, the other two kinds of target to
\* fetch_property_by_address
RoutedByKind ==
    c_call.fn = IF c_call.detected = "listing search URL" THEN "fetch_listings"
                ELSE "fetch_property_by_address"

\* C17 as stated: a target with a URL scheme is a listing-search URL exactly
\* when it contains a search path marker and not /homedetails/, a
\* property-detail URL otherwise; a target without a scheme is an address;
\* listing-search URLs go to fetch_listings, the others to
\* fetch_property_by_address.
C17_ListingIffMarkerAndNoDetail ==
    c_pc = "called" =>
        /\ c_call.detected =
              IF ~HasScheme(c_target) THEN "address string"
              ELSE IF HasSearchMarker(c_target) /\ ~HasDetailMarker(c_target)
              THEN "listing search URL"
              ELSE "property detail URL"
        /\ RoutedByKind

\* C17, amended: a target with a URL scheme is a listing-search URL exactly
\* when it contains /homes, or contains "-" and "zillow.com" and not
\* /homedetails/ (so /homes wins over /homedetails/), a property-detail URL
\* otherwise; a target without a scheme is an address; the routing is as
\* stated.
C17_HomesWinsOverDetailMarker ==
    c_pc = "called" =>
        /\ c_call.detected =
              IF ~HasScheme(c_target) THEN "address string"
              ELSE IF Contains(c_target, <<"/", "h", "o", "m", "e", "s">>)
              THEN "listing search URL"
              ELSE IF /\ Contains(c_target, <<"-">>)
                      /\ Contains(c_target, <<"z", "i", "l", "l", "o", "w", ".", "c", "o", "m">>)
                      /\ ~HasDetailMarker(c_target)
              THEN "listing search URL"
              ELSE "property detail URL"
        /\ RoutedByKind

\* A URL with /homes and /homedetails/ is taken for a listing search
C17_Witness ==
    /\ c_pc = "called"
    /\ c_target = <<"h", "t", "t", "p", "s", ":", "/", "/", "/", "h", "o", "m", "e", "s", "/", "h", "o", "m", "e", "d", "e", "t", "a", "i", "l", "s", "/">>
    /\ c_call = Called("listing search URL", "fetch_listings")


(***************************************************************************)
(* Claims about the callers of fetch_source (SpecService)                  *)
(***************************************************************************)

\* The fetch_source calls invocation p has made
NumFetches(p) == Len(Session(p, 1).fetches) + Len(Session(p, 2).fetches)

\* The last fetch_source call of p returned ""
EmptyFetch(p) == NumFetches(p) > 0 /\ html[p].empty

\* The value that stands for failure: [] for run, None for the others
FailureValue(p) == IF kind[p] = "listings" THEN ListValue(<<>>) ELSE NoneValue

\* C16: when fetch_source returns empty HTML the caller runs no extractor on
\* it (every earlier page was extracted once, this one never), is never at a
\* parse step afterwards, and returns its failure value ([] for run, None for
\* fetch_property_detail, search_by_address and _execute_property_detail_fetch,
\* for the search page and for the detail page) once close() has been called
\* on the session; the value is returned whenever no close() call raises.
C16_EmptyHtmlIsFailedFetch ==
    \A p \in Procs :
        EmptyFetch(p) =>
            /\ listing_parses[p] + detail_parses[p] = NumFetches(p) - 1
            /\ pc[p] \notin {"d105", "d139", "r24", "f53", "s97"}
            /\ ret[p].value = FailureValue(p)
            /\ pc[p] = "done" =>
                  /\ sessions[browser[p]].closes >= 1
                  /\ failure[p] = "none" => ret[p] = Returned(FailureValue(p))

\* search_by_address got "" for the search page and returned None
C16_Witness ==
    \E p \in Procs :
        /\ kind[p] = "service_search"
        /\ EmptyFetch(p)
        /\ pc[p] = "done"
        /\ listing_parses[p] = 0
        /\ detail_parses[p] = 0
        /\ sessions[browser[p]].closes = 1
        /\ ret[p] = Returned(NoneValue)

\* C18: when the search page is not empty and its first listing has a usable
\* link, search_by_address fetches that link on a new browser and returns the
\* record extracted from the detail page; it returns None only when the
\* property is not found.
C18_SearchReachesDetailPage ==
    \A p \in Procs :
        (/\ kind[p] = "service_search"
         /\ pc[p] = "done"
         /\ properties[p] # <<>>
         /\ ~Unusable(properties[p][1].link)) =>
            /\ Session(p, 2).opened
            /\ Session(p, 2).fetches = <<properties[p][1].link>>
            /\ detail_parses[p] = 0 => html[p].empty

(***************************************************************************)
(* Claims about repeated calls on one ZillowService (SpecReuse)            *)
(***************************************************************************)

\* The number of calls made so far: each method begins with one fetch_source
\* call on the service's own browser
CallsMade(p) == Len(Session(p, 1).fetches)

\* The current call has made its fetch and has not returned yet
InCall(p) ==
    \/ pc[p] \in {"r24", "r29", "f53", "f63", "s97", "s117", "s126"}
    \/ outer_browser[p] # NoSession

\* C29: each call of run, fetch_property_detail or search_by_address calls
\* close() on the service's own browser exactly once, on every path: normal
\* return, empty HTML, no results, and an exception of the parser, which run
\* and fetch_property_detail raise again after closing.  On return the
\* browser is released, and a second call on the same service fetches on a
\* released session.
C29_OwnBrowserClosedOncePerCall ==
    \A p \in Procs :
        kind[p] \in ReuseKinds =>
            /\ Session(p, 1).closes = CallsMade(p) - (IF InCall(p) THEN 1 ELSE 0)
            /\ pc[p] = "done" =>
                  /\ Session(p, 1).closes >= 1
                  /\ browser[p] = <<p, 1>>
            /\ (pc[p] = "done" /\ failure[p] = "parse") =>
                  ret[p] = IF kind[p] = "service_search" THEN Returned(NoneValue)
                           ELSE Raised
            /\ CallsMade(p) >= 2 => Session(p, 1).late

\* A second call of fetch_property_detail has returned: two fetches and two
\* close() calls on the one browser, the second fetch on the released session
C29_Witness ==
    \E p \in Procs :
        /\ kind[p] = "service_detail"
        /\ pc[p] = "done"
        /\ CallsMade(p) = 2
        /\ Session(p, 1).closes = 2
        /\ Session(p, 1).late


=============================================================================
